---- MODULE Spec2Model ----
(***************************************************************************)
(* Model of the dnstc runtime engine (internal/engine), its TCP relay      *)
(* gateway (internal/gateway), the process manager (internal/process), the *)
(* asynchronous SSH bootstrap of ssh-backed tunnels and the health-aware   *)
(* upstream of the DNS Proxy (internal/dnsproxy).                          *)
(*                                                                         *)
(* An address is a record of host and port; the empty address has no host  *)
(* and extractPort gives 0 for it. A port number 0 stands for "no port".   *)
(* Tags stand for process names: the process of tag t is "tunnel-" + t.    *)
(***************************************************************************)
EXTENDS Integers, Sequences, FiniteSets, TLC

VARIABLES
    cfg,         \* Engine.cfg: the in-memory config
    disk,        \* the persisted config file
    procs,       \* Manager.processes: tag -> slot of the tracked child, 0 = no entry
    child,       \* the child processes spawned, their reaper and SSH bootstrap goroutines
    sshTunnels,  \* Engine.sshTunnels: tag -> slot whose bootstrap made the adapter, 0 = no entry
    gw,          \* Engine.gw: the Gateway object and its listener
    dnsProxy,    \* Engine.dnsProxy != nil
    ext,         \* loopback ports bound by programs other than dnstc
    conns,       \* Gateway.handleConn goroutines in flight
    eng,         \* holder of Engine.mu (write half) and its position in a blocking call
    ret,         \* the engine call that returned in the step leading to this state
    stopped,     \* tag of the last StopTunnel that returned nil, until the next start of it
    states,      \* HealthAwareUpstream.states: one UpstreamState per upstream, in registration order
    probes,      \* probeOne goroutines in flight, per upstream
    ticker,      \* monitorLoop: the tick being served and the position of probeUpstreams in it
    exchange,    \* one HealthAwareUpstream.Exchange call: its position, locals and history
    processes,   \* Manager.processes with the pids: name -> pid, 0 = no entry
    table,       \* the process table of the operating system: pid -> who runs under it
    stateFile,   \* the file at Manager.statePath: name -> pid, 0 = no entry
    monitors,    \* Manager.monitor goroutines of the running manager
    mgr,         \* the process holding the Manager: down, up, or inside Stop with Manager.mu
    mret,        \* the Manager call that returned in the step leading to this state
    sockFile,    \* the IPC socket file: 0 = absent, else the daemon whose listener it names
    daemon,      \* the supervisors (dnstc daemon run): position, listener, accept loop
    ipcConns,    \* the IPC connections: both ends, lines sent, handler position, responses
    launch,      \* one EnsureDaemon call: its position and locals
    adapter,     \* one sshtunnel.Tunnel: done, listener, SSH client, accept loop, Stop
    socks,       \* the connections to the Tunnel's SOCKS5 listener and their handlers
    cfgFile,     \* the bytes of the config file
    save,        \* one Config.SaveToPath call: its position, data and result
    loaded,      \* what the last LoadFromPath returned
    statusCall,  \* one Engine.Status call: its position, its tunnel and its result
    proxies      \* the DNS Proxy instances the engine started that are running, where
                 \* they are counted

vars == <<cfg, disk, procs, child, sshTunnels, gw, dnsProxy, ext, conns, eng, ret, stopped,
          states, probes, ticker, exchange,
          processes, table, stateFile, monitors, mgr, mret,
          sockFile, daemon, ipcConns, launch,
          adapter, socks, cfgFile, save, loaded, statusCall, proxies>>

(* The health-aware upstream of the DNS Proxy, and the engine with its children *)
resolver == <<states, probes, ticker, exchange>>
manager == <<processes, table, stateFile, monitors, mgr, mret>>
ipc == <<sockFile, daemon, ipcConns, launch>>
ssh5 == <<adapter, socks>>
files == <<cfgFile, save, loaded>>
besideProxies == <<ssh5, files, statusCall>>
others == <<besideProxies, proxies>>
engine == <<cfg, disk, procs, child, sshTunnels, gw, dnsProxy, ext, conns, eng, ret, stopped>>
base == <<engine, resolver, manager, ipc>>
besideSsh5 == <<files, statusCall, proxies>>
besideFiles == <<ssh5, statusCall, proxies>>

----------------------------------------------------------------------------
(* Bounds *)

MaxSpawn == 2       \* children (with their goroutines) that exist at one time
MaxConns == 1       \* gateway connections in flight at one time
NumEphemeral == 1   \* ports the OS hands out for 127.0.0.1:0
MaxPids == 2        \* process ids the operating system hands out
MaxTokenSize == 2   \* the scanner's buffer limit, 1024*1024 bytes in the code
MaxLines == 2       \* request lines a client writes on one connection
MaxIPCConns == 2    \* IPC connections
MaxDaemons == 2     \* supervisors launched
MaxPolls == 2       \* polls of EnsureDaemon before its deadline has passed
MaxSocks == 2       \* connections to the SOCKS5 listener of the SSH adapter
MaxSaves == 3       \* calls of Config.SaveToPath
MaxTunnels == 2     \* tunnels in a config
MaxProxies == 2     \* running DNS Proxy instances that are counted; more count as this many
MaxUpstreams == 3   \* upstreams of a resolver whose health marks do not change
ProbedUpstreams == 2 \* upstreams of a resolver that is probed while it is queried
MaxProbes == 2      \* probeOne goroutines in flight for one upstream
MaxFailures == 4    \* value at which the failure counter of an upstream stops growing

(* Program constants *)

DefaultGatewayPort == 1080
socks5Version == 5
socks5CmdConnect == 1
socks5AddrIPv4 == 1
socks5AddrDomain == 3
socks5AddrIPv6 == 4
failureThreshold == 3
latencyAlpha == 3   \* in tenths

Ephemeral == 50001 .. (50000 + NumEphemeral)
Slots == 1 .. MaxSpawn

TagInputs == {"a", "b"}

TunnelA == [tag |-> "a", transport |-> "dnstt", backend |-> "ssh", port |-> 2001,
            enabled |-> "absent"]
TunnelB == [tag |-> "b", transport |-> "slipstream", backend |-> "socks", port |-> 0,
            enabled |-> "true"]

Addr(p) == [host |-> "127.0.0.1", port |-> p]
EmptyAddr == [host |-> "", port |-> 0]

InitConfig == [listen |-> Addr(DefaultGatewayPort), active |-> "", tunnels |-> <<TunnelA, TunnelB>>]

NoChild == [tag |-> "", ssh |-> FALSE, tport |-> 0, eport |-> 0, st |-> "none",
            mon |-> FALSE, boot |-> "none", adL |-> FALSE, adA |-> FALSE, via |-> 0]

NoGateway == [set |-> FALSE, port |-> 0, listening |-> FALSE]

Idle == [op |-> "idle", tag |-> "", pc |-> ""]

NoNote == [attempts |-> <<>>, dnsErr |-> FALSE, gwErr |-> FALSE, inUse |-> FALSE, oldPort |-> 0]
NoRet == [op |-> "", tag |-> "", ok |-> TRUE, note |-> NoNote]

Ret(op, tag, ok) == [op |-> op, tag |-> tag, ok |-> ok, note |-> NoNote]

----------------------------------------------------------------------------
(* Config *)

(* a tunnel without an enabled flag taken for disabled *)
IsEnabledUnlessAbsent(tc) == tc.enabled = "true"

IsEnabled(tc) == tc.enabled = "absent" \/ tc.enabled = "true"

HasTag(c, tag) == \E i \in 1 .. Len(c.tunnels) : c.tunnels[i].tag = tag

GetTunnelByTag(c, tag) ==
    LET i == CHOOSE j \in 1 .. Len(c.tunnels) :
                 /\ c.tunnels[j].tag = tag
                 /\ \A k \in 1 .. (j - 1) : c.tunnels[k].tag # tag
    IN  c.tunnels[i]

(* net.SplitHostPort and strconv.Atoi: 0 when the address does not parse *)
extractPort(addr) == IF addr.host = "" THEN 0 ELSE addr.port

----------------------------------------------------------------------------
(* Ports *)

Alive(ch, c) == ch[c].st = "starting" \/ ch[c].st = "listening"

Listening(E, p) ==
    \/ p \in ext
    \/ E.gw.set /\ E.gw.listening /\ E.gw.port = p
    \/ \E c \in Slots : E.child[c].st = "listening" /\ E.child[c].tport = p
    \/ \E c \in Slots : E.child[c].adL /\ E.child[c].eport = p

IsAvailable(E, p) == ~Listening(E, p)

GetAvailable(E, want, fail) == IF fail \/ Listening(E, want) THEN 0 ELSE want

----------------------------------------------------------------------------
(* The engine state handed through the calls of one handler *)

CurE == [cfg |-> cfg, disk |-> disk, procs |-> procs, child |-> child,
         ssh |-> sshTunnels, gw |-> gw, dns |-> dnsProxy]

(* A child record nothing refers to any more: process gone, reaper and     *)
(* bootstrap goroutines finished, adapter closed. Its slot is free again.  *)
Garbage(E, c) ==
    /\ E.child[c].st \in {"exited", "killed"}
    /\ ~E.child[c].mon
    /\ E.child[c].boot \in {"none", "done"}
    /\ ~E.child[c].adL
    /\ ~E.child[c].adA
    /\ \A t \in TagInputs : E.ssh[t] # c /\ E.procs[t] # c

Collect(E) == [E EXCEPT !.child = [c \in Slots |-> IF Garbage(E, c) THEN NoChild ELSE E.child[c]]]

SetE(E0) ==
    LET E == Collect(E0) IN
    /\ cfg' = E.cfg
    /\ disk' = E.disk
    /\ procs' = E.procs
    /\ child' = E.child
    /\ sshTunnels' = E.ssh
    /\ gw' = E.gw
    /\ dnsProxy' = E.dns

FreeSlot(ch) ==
    IF \E c \in Slots : ch[c].st = "none"
    THEN CHOOSE c \in Slots : ch[c].st = "none" /\ \A k \in 1 .. (c - 1) : ch[k].st # "none"
    ELSE 0

----------------------------------------------------------------------------
(* Process manager (package process) *)

(* The process dies, by itself ("exited") or by a signal of Manager.Stop   *)
(* ("killed"): its listener closes, and every SSH session carried over a   *)
(* connection to it breaks.                                                *)
Kill(ch, c, how) ==
    [k \in Slots |->
        LET r == IF k = c /\ Alive(ch, c) THEN [ch[k] EXCEPT !.st = how] ELSE ch[k]
        IN  IF r.via = c THEN [r EXCEPT !.adA = FALSE, !.via = 0] ELSE r]

isRunningLocked(E, tag) == E.procs[tag] # 0 /\ Alive(E.child, E.procs[tag])

(* IsRunning looking the process up under a name that is never registered *)
IsRunningWrongName(E, tag) == FALSE

IsRunning(E, tag) == isRunningLocked(E, tag)

(* stopLocked: SIGTERM, wait at most 5s, kill; the entry is deleted.       *)
stopLocked(E, tag) ==
    IF E.procs[tag] = 0
    THEN E
    ELSE [E EXCEPT !.child = Kill(E.child, E.procs[tag], "killed"), !.procs[tag] = 0]

(* Manager.Stop returns the result of saveState, when there was an entry.  *)
StopErr(E, tag, saveOk) == E.procs[tag] # 0 /\ ~saveOk

RECURSIVE StopNames(_, _)
StopNames(E, names) ==
    IF names = {} THEN E
    ELSE LET t == CHOOSE x \in names : TRUE
         IN  StopNames(stopLocked(E, t), names \ {t})

(* only the entries whose process still answers are stopped *)
StopAllAlive(E) == StopNames(E, {t \in TagInputs : isRunningLocked(E, t)})

StopAll(E) == StopNames(E, {t \in TagInputs : E.procs[t] # 0})

(* Manager.Start after the isRunningLocked check: cmd.Start, the entry,    *)
(* the reaper goroutine, then saveState, whose error is Start's result.    *)
Spawn(E, s, tag, isSSH, tport, eport, early, boot) ==
    LET st == IF early /\ IsAvailable(E, tport) THEN "listening" ELSE "starting"
        rec == [tag |-> tag, ssh |-> isSSH, tport |-> tport, eport |-> eport, st |-> st,
                mon |-> TRUE, boot |-> boot, adL |-> FALSE, adA |-> FALSE, via |-> 0]
    IN  [E EXCEPT !.child[s] = rec, !.procs[tag] = s]

----------------------------------------------------------------------------
(* Engine helpers (the ...Locked functions) *)

Faults == {"none", "nobin", "noport", "nospawn", "nosave"}
Choice == [fault : Faults, port : Ephemeral, early : BOOLEAN]

GwFaults == {"none", "noport", "nosave", "nobind"}
GwChoice == [fault : GwFaults, port : Ephemeral]

ExposedPort(c, tc) ==
    IF tc.port # 0 THEN tc.port
    ELSE IF extractPort(c.listen) # 0 THEN extractPort(c.listen)
    ELSE DefaultGatewayPort

Failed(E) == [E |-> E, ok |-> FALSE, full |-> FALSE]

(* The transports registered by the providers' init functions *)
Registered == {"slipstream", "dnstt"}

(* Transport.SupportedBackends of the two providers *)
SupportedBackends(transport) ==
    IF transport = "dnstt" THEN {"socks"}
    ELSE IF transport = "slipstream" THEN {"socks", "shadowsocks"}
    ELSE {}

startTunnelLocked(E, tag, ch) ==
    IF ~HasTag(E.cfg, tag) THEN Failed(E)
    ELSE
    LET tc == GetTunnelByTag(E.cfg, tag)
        isSSH == tc.backend = "ssh"
        exposedPort == ExposedPort(E.cfg, tc)
        internalPort == GetAvailable(E, ch.port, ch.fault = "noport")
        transportPort == IF isSSH THEN internalPort ELSE exposedPort
        s == FreeSlot(E.child)
        ok == ch.fault # "nosave"
    IN  IF IsRunning(E, tag) THEN Failed(E)
        ELSE IF tc.transport \notin Registered THEN Failed(E)
        ELSE IF ch.fault = "nobin" THEN Failed(E)
        ELSE IF isSSH /\ internalPort = 0 THEN Failed(E)
        ELSE IF ~isSSH /\ ~IsAvailable(E, transportPort) THEN Failed(E)
        ELSE IF ch.fault = "nospawn" THEN Failed(E)
        ELSE IF s = 0 THEN [E |-> E, ok |-> FALSE, full |-> TRUE]
        ELSE [E |-> Spawn(E, s, tag, isSSH, transportPort, exposedPort, ch.early,
                          IF isSSH /\ ok THEN "wait" ELSE "none"),
              ok |-> ok, full |-> FALSE]

(* The running DNS Proxy instances are counted in the behaviours that     *)
(* start with a count; in the others the count stays off.                 *)
NotCounted == 0 - 1

(* One more DNS Proxy runs: dnsproxy.New and Proxy.Start on a port of its *)
(* own                                                                    *)
Started(n) == IF n = NotCounted THEN n ELSE IF n < MaxProxies THEN n + 1 ELSE MaxProxies

(* Proxy.Stop of one that runs *)
Ended(n) == IF n = NotCounted THEN n ELSE n - 1

startDNSProxyLocked(E, dnsOk) ==
    IF dnsOk THEN [E |-> [E EXCEPT !.dns = TRUE], ok |-> TRUE]
    ELSE [E |-> E, ok |-> FALSE]

startGatewayLocked(E, g) ==
    IF E.gw.set THEN [E |-> E, ok |-> TRUE, inUse |-> FALSE]
    ELSE
    LET gwAddr == IF E.cfg.listen = EmptyAddr THEN Addr(DefaultGatewayPort) ELSE E.cfg.listen
        gwPort == extractPort(gwAddr)
        inUse == gwPort > 0 /\ ~IsAvailable(E, gwPort)
        newPort == GetAvailable(E, g.port, g.fault = "noport")
        addr == IF inUse THEN Addr(newPort) ELSE gwAddr
        cfg1 == IF inUse THEN [E.cfg EXCEPT !.listen = addr] ELSE E.cfg
        disk1 == IF inUse /\ g.fault # "nosave" THEN cfg1 ELSE E.disk
        bound == g.fault # "nobind" /\ IsAvailable(E, addr.port)
    IN  IF inUse /\ newPort = 0
        THEN [E |-> E, ok |-> FALSE, inUse |-> TRUE]
        ELSE [E |-> [E EXCEPT !.cfg = cfg1, !.disk = disk1,
                              !.gw = [set |-> TRUE, port |-> addr.port, listening |-> bound]],
              ok |-> bound, inUse |-> inUse]

hasRunningTunnelsLocked(E) ==
    \/ \E i \in 1 .. Len(E.cfg.tunnels) : IsRunning(E, E.cfg.tunnels[i].tag)
    \/ \E t \in TagInputs : E.ssh[t] # 0

(* Engine.IsConnected *)
IsConnected(E) == hasRunningTunnelsLocked(E)

(* sshtunnel.Tunnel.Stop on the adapter made by the bootstrap of slot k *)
AdapterStop(ch, k) == [ch EXCEPT ![k].adL = FALSE, ![k].adA = FALSE, ![k].via = 0]

StopSSHTunnel(E, tag) ==
    IF E.ssh[tag] # 0
    THEN [E EXCEPT !.child = AdapterStop(E.child, E.ssh[tag]), !.ssh[tag] = 0]
    ELSE E

resolveActiveTarget(E) ==
    LET activeTag == E.cfg.active IN
    IF activeTag = "" THEN 0
    ELSE IF ~HasTag(E.cfg, activeTag) THEN 0
    ELSE
    LET tc == GetTunnelByTag(E.cfg, activeTag)
        tunnelPort == IF tc.port # 0 THEN tc.port ELSE extractPort(E.cfg.listen)
    IN  IF tunnelPort = 0 THEN 0
        ELSE IF ~IsRunning(E, activeTag) THEN 0
        ELSE IF tc.backend = "ssh" /\ (E.ssh[activeTag] = 0 \/ ~E.child[E.ssh[activeTag]].adA) THEN 0
        ELSE tunnelPort

(* Engine.Status: the Running field of the TunnelStatus of a configured tag *)
StatusRunning(E, tag) ==
    LET tc == GetTunnelByTag(E.cfg, tag) IN
    IF tc.backend = "ssh"
    THEN IF E.ssh[tag] # 0 THEN IsRunning(E, tag) /\ E.child[E.ssh[tag]].adA ELSE FALSE
    ELSE IsRunning(E, tag)

StatusGatewayAddr(E) == IF E.gw.set THEN E.gw.port ELSE 0

----------------------------------------------------------------------------
(* Engine.Start *)

RECURSIVE StartAll(_, _, _)
StartAll(E, i, chs) ==
    IF i > Len(E.cfg.tunnels) THEN [E |-> E, attempts |-> <<>>, full |-> FALSE]
    ELSE
    LET tc == E.cfg.tunnels[i] IN
    IF ~IsEnabled(tc) THEN StartAll(E, i + 1, chs)
    ELSE
    LET r == startTunnelLocked(E, tc.tag, chs[i])
        rest == StartAll(r.E, i + 1, chs)
    IN  [E |-> rest.E,
         attempts |-> <<[tag |-> tc.tag, ok |-> r.ok]>> \o rest.attempts,
         full |-> r.full \/ rest.full]

EngStart(dnsOk, g, chs) ==
    /\ eng = Idle
    /\ LET d == startDNSProxyLocked(CurE, dnsOk)
           r == startGatewayLocked(d.E, g)
           l == StartAll(r.E, 1, chs)
           note == [attempts |-> IF r.ok THEN l.attempts ELSE <<>>, dnsErr |-> ~d.ok,
                    gwErr |-> ~r.ok, inUse |-> r.inUse, oldPort |-> extractPort(cfg.listen)]
       IN  IF ~r.ok
           THEN /\ SetE(r.E)
                /\ ret' = [op |-> "Start", tag |-> "", ok |-> FALSE, note |-> note]
           ELSE /\ ~l.full
                /\ SetE(l.E)
                /\ ret' = [op |-> "Start", tag |-> "", ok |-> TRUE, note |-> note]
    /\ stopped' = ""
    /\ proxies' = IF dnsOk THEN Started(proxies) ELSE proxies
    /\ UNCHANGED <<ext, conns, eng, resolver, manager, ipc, besideProxies>>

(* Engine.StartTunnel as a function of the engine state *)
StartTunnel(E, tag, dnsOk, ch, g) ==
    LET d == IF ~E.dns THEN startDNSProxyLocked(E, dnsOk).E ELSE E
        r == startTunnelLocked(d, tag, ch)
        w == IF ~r.E.gw.set THEN startGatewayLocked(r.E, g)
             ELSE [E |-> r.E, ok |-> TRUE, inUse |-> FALSE]
    IN  IF ~r.ok THEN [E |-> r.E, ok |-> FALSE, full |-> r.full]
        ELSE [E |-> w.E, ok |-> w.ok, full |-> FALSE]

(* Engine.StartTunnel *)
EngStartTunnel(tag, dnsOk, ch, g) ==
    /\ eng = Idle
    /\ LET r == StartTunnel(CurE, tag, dnsOk, ch, g)
       IN  /\ ~r.full
           /\ SetE(r.E)
           /\ ret' = Ret("StartTunnel", tag, r.ok)
    /\ stopped' = IF stopped = tag THEN "" ELSE stopped
    /\ proxies' = IF ~dnsProxy /\ dnsOk THEN Started(proxies) ELSE proxies
    /\ UNCHANGED <<ext, conns, eng, resolver, manager, ipc, besideProxies>>

(* Engine.StopTunnel as a function of the engine state: E is the state     *)
(* before the Gateway is stopped, gwStop tells whether it is stopped.      *)
StopTunnel(E, tag, saveOk) ==
    LET E1 == StopSSHTunnel(E, tag)
        err == StopErr(E1, tag, saveOk)
        E2 == stopLocked(E1, tag)
    IN  [E |-> E2, ok |-> ~err, gwStop |-> ~err /\ ~hasRunningTunnelsLocked(E2) /\ E2.gw.set]

(* Engine.StopTunnel up to Gateway.Stop's wg.Wait *)
EngStopTunnel(tag, saveOk) ==
    /\ eng = Idle
    /\ LET r == StopTunnel(CurE, tag, saveOk)
           E2 == r.E
       IN  IF ~r.ok
           THEN /\ SetE(E2)
                /\ ret' = Ret("StopTunnel", tag, FALSE)
                /\ stopped' = stopped
                /\ eng' = eng
           ELSE IF r.gwStop
           THEN /\ SetE([E2 EXCEPT !.gw.listening = FALSE])
                /\ ret' = NoRet
                /\ stopped' = stopped
                /\ eng' = [op |-> "StopTunnel", tag |-> tag, pc |-> "gwwait"]
           ELSE /\ SetE(E2)
                /\ ret' = Ret("StopTunnel", tag, TRUE)
                /\ stopped' = tag
                /\ eng' = eng
    /\ UNCHANGED <<ext, conns, resolver, manager, ipc, others>>

(* Engine.StopTunnel from the return of wg.Wait: every handler has finished *)
EngStopTunnelDone ==
    /\ eng.op = "StopTunnel"
    /\ conns = {}
    /\ gw' = NoGateway
    /\ eng' = Idle
    /\ ret' = Ret("StopTunnel", eng.tag, TRUE)
    /\ stopped' = eng.tag
    /\ UNCHANGED <<cfg, disk, procs, child, sshTunnels, dnsProxy, ext, conns, resolver, manager, ipc, others>>

(* Engine.RestartTunnel as a function of the engine state *)
RestartTunnel(E, tag, ch) ==
    startTunnelLocked(stopLocked(StopSSHTunnel(E, tag), tag), tag, ch)

(* Engine.RestartTunnel *)
EngRestartTunnel(tag, ch) ==
    /\ eng = Idle
    /\ LET r == RestartTunnel(CurE, tag, ch)
       IN  /\ ~r.full
           /\ SetE(r.E)
           /\ ret' = Ret("RestartTunnel", tag, r.ok)
    /\ stopped' = IF stopped = tag THEN "" ELSE stopped
    /\ UNCHANGED <<ext, conns, eng, resolver, manager, ipc, others>>

(* ActivateTunnel changing the route in memory only and reporting success *)
EngActivateTunnelMemoryOnly(tag, saveOk) ==
    /\ eng = Idle
    /\ cfg' = IF HasTag(cfg, tag) THEN [cfg EXCEPT !.active = tag] ELSE cfg
    /\ ret' = Ret("ActivateTunnel", tag, HasTag(cfg, tag))
    /\ UNCHANGED <<disk, procs, child, sshTunnels, gw, dnsProxy, ext, conns, eng, stopped, resolver, manager, ipc, others>>

(* Engine.ActivateTunnel *)
EngActivateTunnel(tag, saveOk) ==
    /\ eng = Idle
    /\ IF ~HasTag(cfg, tag)
       THEN /\ ret' = Ret("ActivateTunnel", tag, FALSE)
            /\ UNCHANGED <<cfg, disk>>
       ELSE /\ cfg' = [cfg EXCEPT !.active = tag]
            /\ disk' = IF saveOk THEN cfg' ELSE disk
            /\ ret' = Ret("ActivateTunnel", tag, saveOk)
    /\ UNCHANGED <<procs, child, sshTunnels, gw, dnsProxy, ext, conns, eng, stopped, resolver, manager, ipc, others>>

(* Engine.ReloadConfig *)
EngReloadConfig(loadOk) ==
    /\ eng = Idle
    /\ cfg' = IF loadOk THEN disk ELSE cfg
    /\ ret' = Ret("ReloadConfig", "", loadOk)
    /\ UNCHANGED <<disk, procs, child, sshTunnels, gw, dnsProxy, ext, conns, eng, stopped, resolver, manager, ipc, others>>

----------------------------------------------------------------------------
(* The handlers of tunnel add, import, remove and activate. Each loads the *)
(* config from disk, changes it and saves it; activate goes through the    *)
(* engine when the process has one. Tags are names as the user types them. *)

RawTags == {"", "a", "B", "9"}

(* config.NormalizeTag: lower case, '-' for '_' and ' ' *)
NormalizeTag(t) == CASE t = "B" -> "b" [] OTHER -> t

(* tagRegex.MatchString *)
tagRegex(t) == t \in {"a", "b", "g", "g-1"}

(* config.GenerateUniqueTag: a generated name no tunnel has, or, when the  *)
(* attempts all hit a tunnel, a name with a random suffix, unchecked       *)
GenerateUniqueTag(c) ==
    {n \in {"g"} : ~HasTag(c, n)} \cup (IF HasTag(c, "g") THEN {"g-1"} ELSE {})

DefaultConfig == [listen |-> Addr(DefaultGatewayPort), active |-> "", tunnels |-> <<>>]

NewTunnel(tag, backend) ==
    [tag |-> tag, transport |-> "slipstream", backend |-> backend, port |-> 0,
     enabled |-> "absent"]

(* validateTagUniqueness *)
UniqueTags(c) ==
    \A i, j \in 1 .. Len(c.tunnels) : c.tunnels[i].tag = c.tunnels[j].tag => i = j

(* Config.Validate *)
Validate(c) ==
    /\ \A i \in 1 .. Len(c.tunnels) : tagRegex(c.tunnels[i].tag)
    /\ UniqueTags(c)
    /\ \A i \in 1 .. Len(c.tunnels) : c.tunnels[i].backend \in {"socks", "shadowsocks"}
    /\ c.active # "" => HasTag(c, c.active)

(* The config with the tunnel appended, active if none was *)
TunnelAdded(c, tc) ==
    [c EXCEPT !.tunnels = Append(c.tunnels, tc),
              !.active = IF c.active = "" THEN tc.tag ELSE c.active]

(* HandleTunnelRemove that leaves route.active alone *)
TunnelRemovedKeepActive(c, tag) ==
    LET Keep(tc) == tc.tag # tag IN
    [c EXCEPT !.tunnels = SelectSeq(c.tunnels, Keep)]

(* The config without the tunnels of the tag, and not active any more *)
TunnelRemoved(c, tag) ==
    LET Keep(tc) == tc.tag # tag IN
    [c EXCEPT !.tunnels = SelectSeq(c.tunnels, Keep),
              !.active = IF c.active = tag THEN "" ELSE c.active]

(* HandleTunnelAdd, with the flags of a transport and a backend that go   *)
(* together                                                               *)
HandleTunnelAdd(raw, loadOk, saveOk) ==
    LET c == IF loadOk THEN disk ELSE DefaultConfig IN
    /\ eng = Idle
    /\ Len(c.tunnels) < MaxTunnels
    /\ \E tag0 \in (IF raw = "" THEN GenerateUniqueTag(c) ELSE {raw}) :
          LET tag == NormalizeTag(tag0) IN
          IF ~tagRegex(tag) \/ HasTag(c, tag)
          THEN /\ ret' = Ret("TunnelAdd", "", FALSE)
               /\ UNCHANGED disk
          ELSE /\ disk' = IF saveOk THEN TunnelAdded(c, NewTunnel(tag, "socks")) ELSE disk
               /\ ret' = Ret("TunnelAdd", "", saveOk)
    /\ UNCHANGED <<cfg, procs, child, sshTunnels, gw, dnsProxy, ext, conns, eng, stopped, resolver, manager, ipc, others>>

(* HandleTunnelImport *)
HandleTunnelImport(raw, backend, loadOk, saveOk) ==
    LET c == IF loadOk THEN disk ELSE DefaultConfig IN
    /\ eng = Idle
    /\ Len(c.tunnels) < MaxTunnels
    /\ \E tag \in (IF raw = "" \/ HasTag(c, NormalizeTag(raw)) THEN GenerateUniqueTag(c)
                   ELSE {NormalizeTag(raw)}) :
          LET c1 == [c EXCEPT !.tunnels = Append(c.tunnels, NewTunnel(tag, backend))] IN
          IF ~Validate(c1)
          THEN /\ ret' = Ret("TunnelImport", "", FALSE)
               /\ UNCHANGED disk
          ELSE /\ disk' = IF saveOk THEN TunnelAdded(c, NewTunnel(tag, backend)) ELSE disk
               /\ ret' = Ret("TunnelImport", "", saveOk)
    /\ UNCHANGED <<cfg, procs, child, sshTunnels, gw, dnsProxy, ext, conns, eng, stopped, resolver, manager, ipc, others>>

(* HandleTunnelRemove, in a process without an engine *)
HandleTunnelRemove(raw, loadOk, saveOk) ==
    /\ eng = Idle
    /\ IF ~loadOk \/ raw = "" \/ ~HasTag(disk, raw)
       THEN /\ ret' = Ret("TunnelRemove", "", FALSE)
            /\ UNCHANGED disk
       ELSE /\ disk' = IF saveOk THEN TunnelRemoved(disk, raw) ELSE disk
            /\ ret' = Ret("TunnelRemove", "", saveOk)
    /\ UNCHANGED <<cfg, procs, child, sshTunnels, gw, dnsProxy, ext, conns, eng, stopped, resolver, manager, ipc, others>>

(* HandleTunnelActivate: through Engine.ActivateTunnel when the process    *)
(* has an engine, else on the loaded config                                *)
HandleTunnelActivate(raw, withEng, loadOk, saveOk) ==
    /\ eng = Idle
    /\ IF ~loadOk \/ raw = "" \/ ~HasTag(disk, raw)
       THEN /\ ret' = Ret("TunnelActivate", "", FALSE)
            /\ UNCHANGED <<cfg, disk>>
       ELSE IF disk.active = raw
       THEN /\ ret' = Ret("TunnelActivate", "", TRUE)
            /\ UNCHANGED <<cfg, disk>>
       ELSE IF withEng
       THEN IF ~HasTag(cfg, raw)
            THEN /\ ret' = Ret("TunnelActivate", "", FALSE)
                 /\ UNCHANGED <<cfg, disk>>
            ELSE /\ cfg' = [cfg EXCEPT !.active = raw]
                 /\ disk' = IF saveOk THEN cfg' ELSE disk
                 /\ ret' = Ret("TunnelActivate", "", saveOk)
       ELSE /\ disk' = IF saveOk THEN [disk EXCEPT !.active = raw] ELSE disk
            /\ ret' = Ret("TunnelActivate", "", saveOk)
            /\ UNCHANGED cfg
    /\ UNCHANGED <<procs, child, sshTunnels, gw, dnsProxy, ext, conns, eng, stopped, resolver, manager, ipc, others>>

----------------------------------------------------------------------------
(* Engine.Status, statement by statement: it holds Engine.mu for reading   *)
(* from its first statement to its return.                                 *)

NoStatus == [pc |-> "idle", i |-> 0, running |-> {}]

(* e.mu.RLock() *)
StatusBegin ==
    /\ statusCall.pc = "idle"
    /\ eng = Idle
    /\ statusCall' = [pc |-> "loop", i |-> 1, running |-> {}]
    /\ ret' = NoRet
    /\ UNCHANGED <<cfg, disk, procs, child, sshTunnels, gw, dnsProxy, ext, conns, eng, stopped, resolver, manager, ipc, ssh5, files, proxies>>

(* One tunnel of the loop, up to st.IsAlive(): IsRunning, and for an ssh   *)
(* tunnel that runs and has an adapter the keepalive request is sent       *)
StatusTunnel ==
    /\ statusCall.pc = "loop"
    /\ statusCall.i <= Len(cfg.tunnels)
    /\ LET tc == cfg.tunnels[statusCall.i]
           r == IsRunning(CurE, tc.tag)
       IN  IF tc.backend = "ssh"
           THEN IF sshTunnels[tc.tag] # 0 /\ r
                THEN statusCall' = [statusCall EXCEPT !.pc = "keepalive"]
                ELSE statusCall' = [statusCall EXCEPT !.i = statusCall.i + 1]
           ELSE statusCall' = [statusCall EXCEPT !.i = statusCall.i + 1,
                                  !.running = IF r THEN statusCall.running \cup {tc.tag}
                                              ELSE statusCall.running]
    /\ ret' = NoRet
    /\ UNCHANGED <<cfg, disk, procs, child, sshTunnels, gw, dnsProxy, ext, conns, eng, stopped, resolver, manager, ipc, ssh5, files, proxies>>

(* Tunnel.IsAlive returns: the reply to keepalive@openssh.com has come, or *)
(* the request failed because the session is gone                          *)
StatusKeepalive ==
    /\ statusCall.pc = "keepalive"
    /\ LET tc == cfg.tunnels[statusCall.i]
           alive == child[sshTunnels[tc.tag]].adA
       IN  statusCall' = [statusCall EXCEPT !.pc = "loop", !.i = statusCall.i + 1,
                              !.running = IF alive THEN statusCall.running \cup {tc.tag}
                                          ELSE statusCall.running]
    /\ ret' = NoRet
    /\ UNCHANGED <<cfg, disk, procs, child, sshTunnels, gw, dnsProxy, ext, conns, eng, stopped, resolver, manager, ipc, ssh5, files, proxies>>

(* return s, and the deferred e.mu.RUnlock() *)
StatusReturn ==
    /\ statusCall.pc = "loop"
    /\ statusCall.i > Len(cfg.tunnels)
    /\ statusCall' = [statusCall EXCEPT !.pc = "idle"]
    /\ ret' = Ret("Status", "", TRUE)
    /\ UNCHANGED <<cfg, disk, procs, child, sshTunnels, gw, dnsProxy, ext, conns, eng, stopped, resolver, manager, ipc, ssh5, files, proxies>>

----------------------------------------------------------------------------
(* Engine.Stop, statement by statement: it holds Engine.mu throughout and  *)
(* Gateway.Stop blocks in wg.Wait until every handleConn has returned.     *)

RECURSIVE StopAdapters(_, _)
StopAdapters(E, tags) ==
    IF tags = {} THEN E
    ELSE LET t == CHOOSE x \in tags : TRUE
         IN  StopAdapters(StopSSHTunnel(E, t), tags \ {t})

StopBegin ==
    /\ eng = Idle
    /\ SetE(StopAdapters(CurE, TagInputs))
    /\ eng' = [op |-> "Stop", tag |-> "", pc |-> "procs"]
    /\ ret' = NoRet
    /\ UNCHANGED <<ext, conns, stopped, resolver, manager, ipc, others>>

StopProcs ==
    /\ eng.op = "Stop" /\ eng.pc = "procs"
    /\ SetE(StopAll(CurE))
    /\ eng' = [eng EXCEPT !.pc = "gw"]
    /\ ret' = NoRet
    /\ UNCHANGED <<ext, conns, stopped, resolver, manager, ipc, others>>

StopGw ==
    /\ eng.op = "Stop" /\ eng.pc = "gw"
    /\ IF gw.set
       THEN gw' = [gw EXCEPT !.listening = FALSE] /\ eng' = [eng EXCEPT !.pc = "gwwait"]
       ELSE gw' = gw /\ eng' = [eng EXCEPT !.pc = "dns"]
    /\ ret' = NoRet
    /\ UNCHANGED <<cfg, disk, procs, child, sshTunnels, dnsProxy, ext, conns, stopped, resolver, manager, ipc, others>>

StopGwWait ==
    /\ eng.op = "Stop" /\ eng.pc = "gwwait"
    /\ conns = {}
    /\ gw' = NoGateway
    /\ eng' = [eng EXCEPT !.pc = "dns"]
    /\ ret' = NoRet
    /\ UNCHANGED <<cfg, disk, procs, child, sshTunnels, dnsProxy, ext, conns, stopped, resolver, manager, ipc, others>>

StopDNS ==
    /\ eng.op = "Stop" /\ eng.pc = "dns"
    /\ dnsProxy' = FALSE
    /\ proxies' = IF dnsProxy THEN Ended(proxies) ELSE proxies
    /\ eng' = Idle
    /\ ret' = Ret("Stop", "", TRUE)
    /\ UNCHANGED <<cfg, disk, procs, child, sshTunnels, gw, ext, conns, stopped, resolver, manager, ipc, besideProxies>>

----------------------------------------------------------------------------
(* Child processes and the reaper goroutine (Manager.monitor) *)

ChildBind(c) ==
    /\ child[c].st = "starting"
    /\ SetE([CurE EXCEPT !.child = IF IsAvailable(CurE, child[c].tport)
                                   THEN [child EXCEPT ![c].st = "listening"]
                                   ELSE Kill(child, c, "exited")])
    /\ ret' = NoRet
    /\ UNCHANGED <<ext, conns, eng, stopped, resolver, manager, ipc, others>>

ChildExit(c) ==
    /\ Alive(child, c)
    /\ SetE([CurE EXCEPT !.child = Kill(child, c, "exited")])
    /\ ret' = NoRet
    /\ UNCHANGED <<ext, conns, eng, stopped, resolver, manager, ipc, others>>

(* monitor: cmd.Wait has returned; delete(m.processes, name); saveState *)
monitor(E, c) == [E EXCEPT !.procs[E.child[c].tag] = 0, !.child[c].mon = FALSE]

MonitorReap(c) ==
    /\ child[c].st \in {"exited", "killed"}
    /\ child[c].mon
    /\ SetE(monitor(CurE, c))
    /\ ret' = NoRet
    /\ UNCHANGED <<ext, conns, eng, stopped, resolver, manager, ipc, others>>

(* the SSH server or the DNS tunnel drops the session *)
SSHSessionDies(c) ==
    /\ child[c].adA
    /\ SetE([CurE EXCEPT !.child[c].adA = FALSE, !.child[c].via = 0])
    /\ ret' = NoRet
    /\ UNCHANGED <<ext, conns, eng, stopped, resolver, manager, ipc, others>>

ExtPorts == {DefaultGatewayPort}

ExtBind(p) ==
    /\ p \notin ext
    /\ IsAvailable(CurE, p)
    /\ ext' = ext \cup {p}
    /\ ret' = NoRet
    /\ UNCHANGED <<cfg, disk, procs, child, sshTunnels, gw, dnsProxy, conns, eng, stopped, resolver, manager, ipc, others>>

ExtRelease(p) ==
    /\ p \in ext
    /\ ext' = ext \ {p}
    /\ ret' = NoRet
    /\ UNCHANGED <<cfg, disk, procs, child, sshTunnels, gw, dnsProxy, conns, eng, stopped, resolver, manager, ipc, others>>

(* the config file is rewritten by another program (the CLI, an editor) *)
ListenEdits == {EmptyAddr, Addr(DefaultGatewayPort)}

ExternalEdit(a) ==
    /\ disk.listen # a
    /\ disk' = [disk EXCEPT !.listen = a]
    /\ ret' = NoRet
    /\ UNCHANGED <<cfg, procs, child, sshTunnels, gw, dnsProxy, ext, conns, eng, stopped, resolver, manager, ipc, others>>

----------------------------------------------------------------------------
(* The SSH bootstrap goroutine of startTunnelLocked *)

BootWaitOk(c) ==
    /\ child[c].boot = "wait"
    /\ Listening(CurE, child[c].tport)
    /\ child' = [child EXCEPT ![c].boot = "hs"]
    /\ ret' = NoRet
    /\ UNCHANGED <<cfg, disk, procs, sshTunnels, gw, dnsProxy, ext, conns, eng, stopped, resolver, manager, ipc, others>>

BootWaitTimeout(c) ==
    /\ child[c].boot = "wait"
    /\ ~Listening(CurE, child[c].tport)
    /\ SetE(stopLocked([CurE EXCEPT !.child[c].boot = "done"], child[c].tag))
    /\ ret' = NoRet
    /\ UNCHANGED <<ext, conns, eng, stopped, resolver, manager, ipc, others>>

(* sshtunnel.Start succeeds: the handshake ran over a connection to the   *)
(* transport listening on tport, and the SOCKS listener is bound.         *)
BootSSHOk(c) ==
    /\ child[c].boot = "hs"
    /\ IsAvailable(CurE, child[c].eport)
    /\ \E v \in Slots :
          /\ child[v].st = "listening"
          /\ child[v].tport = child[c].tport
          /\ child' = [child EXCEPT ![c].boot = "lock", ![c].adL = TRUE,
                                    ![c].adA = TRUE, ![c].via = v]
    /\ ret' = NoRet
    /\ UNCHANGED <<cfg, disk, procs, sshTunnels, gw, dnsProxy, ext, conns, eng, stopped, resolver, manager, ipc, others>>

BootSSHFail(c) ==
    /\ child[c].boot = "hs"
    /\ SetE(stopLocked([CurE EXCEPT !.child[c].boot = "done"], child[c].tag))
    /\ ret' = NoRet
    /\ UNCHANGED <<ext, conns, eng, stopped, resolver, manager, ipc, others>>

(* e.mu.Lock(); e.sshTunnels[tag] = st; e.mu.Unlock() *)
BootInstall(c) ==
    /\ child[c].boot = "lock"
    /\ eng = Idle
    /\ SetE([CurE EXCEPT !.ssh[child[c].tag] = c, !.child[c].boot = "done"])
    /\ ret' = NoRet
    /\ UNCHANGED <<ext, conns, eng, stopped, resolver, manager, ipc, others>>

----------------------------------------------------------------------------
(* Gateway: acceptLoop and handleConn *)

(* the exposed port on which the tunnel of tag t was started and is serving: *)
(* the port its child listens on, for ssh the port of its SOCKS adapter     *)
ServingPort(E, t) ==
    IF t # "" /\ HasTag(E.cfg, t) /\ StatusRunning(E, t)
    THEN IF GetTunnelByTag(E.cfg, t).backend = "ssh"
         THEN E.child[E.ssh[t]].eport
         ELSE E.child[E.procs[t]].eport
    ELSE 0

GwAccept ==
    /\ gw.set /\ gw.listening
    /\ Cardinality(conns) < MaxConns
    /\ conns' = conns \cup {[st |-> "accepted", target |-> 0, act |-> cfg.active, want |-> 0]}
    /\ ret' = NoRet
    /\ UNCHANGED <<cfg, disk, procs, child, sshTunnels, gw, dnsProxy, ext, eng, stopped, resolver, manager, ipc, others>>

(* target := g.target() under Engine.mu.RLock, then net.DialTimeout *)
GwResolve(c, dialOk) ==
    /\ c \in conns
    /\ c.st = "accepted"
    /\ eng = Idle
    /\ LET target == resolveActiveTarget(CurE) IN
       IF target # 0 /\ dialOk /\ Listening(CurE, target)
       THEN conns' = (conns \ {c}) \cup
                     {[c EXCEPT !.st = "relay", !.target = target, !.want = ServingPort(CurE, c.act)]}
       ELSE conns' = conns \ {c}
    /\ ret' = NoRet
    /\ UNCHANGED <<cfg, disk, procs, child, sshTunnels, gw, dnsProxy, ext, eng, stopped, resolver, manager, ipc, others>>

(* one side of the relay reports EOF or an error *)
GwClose(c) ==
    /\ c \in conns
    /\ c.st = "relay"
    /\ conns' = conns \ {c}
    /\ ret' = NoRet
    /\ UNCHANGED <<cfg, disk, procs, child, sshTunnels, gw, dnsProxy, ext, eng, stopped, resolver, manager, ipc, others>>

----------------------------------------------------------------------------

(* The outcomes of one call worth telling apart: the port GetAvailable     *)
(* hands out matters for an ssh tunnel only, the child binding its port    *)
(* while the handler still runs only when the Gateway is started after it. *)

MinEphemeral == CHOOSE p \in Ephemeral : \A q \in Ephemeral : p <= q

TunnelChoices(tag, withEarly) ==
    IF ~HasTag(cfg, tag)
    THEN {[fault |-> "none", port |-> MinEphemeral, early |-> FALSE]}
    ELSE IF GetTunnelByTag(cfg, tag).backend = "ssh"
    THEN {c \in Choice : /\ ~c.early
                         /\ c.fault \in {"nobin", "noport", "nospawn"} => c.port = MinEphemeral}
    ELSE {c \in Choice : /\ c.port = MinEphemeral
                         /\ c.fault # "noport"
                         /\ c.early => (withEarly /\ c.fault \in {"none", "nosave"})}

StartChoices(tag) ==
    IF IsRunning(CurE, tag) THEN {[fault |-> "none", port |-> MinEphemeral, early |-> FALSE]}
    ELSE TunnelChoices(tag, FALSE)

GwChoices ==
    IF gw.set THEN {[fault |-> "none", port |-> MinEphemeral]}
    ELSE {g \in GwChoice : g.fault = "noport" => g.port = MinEphemeral}

DNSChoices(attempted) == IF attempted THEN BOOLEAN ELSE {TRUE}

----------------------------------------------------------------------------
(* The health-aware upstream of the DNS Proxy (dnsproxy/health.go).         *)
(* Upstreams are numbered in registration order. A latency is a positive    *)
(* number of time units, 0 is "never measured".                             *)

Latencies == {1, 2}

UpstreamState(h, l, f) == [Healthy |-> h, AvgLatency |-> l, Failures |-> f]

NewHealthAwareUpstream(n) == [u \in 1 .. n |-> UpstreamState(TRUE, 0, 0)]

IdleTicker == [pc |-> "idle", i |-> 0]

IdleExchange ==
    [pc |-> "idle", i |-> 0, j |-> 0, ordered |-> <<>>, read |-> <<>>, fallback |-> FALSE,
     inflight |-> {}, sent |-> <<>>, log |-> <<>>, res |-> "", from |-> 0, err |-> 0]

(* A comparison by latency alone *)
LatencyCmpPlain(la, lb) == IF la < lb THEN -1 ELSE IF la > lb THEN 1 ELSE 0

(* The comparison function orderedHealthyStates hands to SortStableFunc *)
LatencyCmp(la, lb) ==
    IF la = 0 /\ lb = 0 THEN 0
    ELSE IF la = 0 THEN 1
    ELSE IF lb = 0 THEN -1
    ELSE IF la < lb THEN -1 ELSE IF la > lb THEN 1 ELSE 0

(* allStates *)
allStates == [u \in 1 .. Len(states) |-> u]

(* Exchange is entered: nothing read yet *)
ExchangeBegin ==
    /\ exchange.pc = "idle"
    /\ exchange' = [IdleExchange EXCEPT !.pc = "scan", !.i = 1,
                                        !.read = [u \in 1 .. Len(states) |-> "unread"],
                                        !.sent = [u \in 1 .. Len(states) |-> 0]]
    /\ UNCHANGED <<states, probes, ticker, engine, manager, ipc, others>>

(* The scan appending every upstream, whatever its mark *)
ExchangeScanAll ==
    /\ exchange.pc = "scan"
    /\ IF exchange.i <= Len(states)
       THEN exchange' = [exchange EXCEPT !.read[exchange.i] = IF states[exchange.i].Healthy
                                                               THEN "healthy" ELSE "unhealthy",
                                         !.ordered = Append(@, exchange.i),
                                         !.i = @ + 1]
       ELSE exchange' = [exchange EXCEPT !.pc = "sort", !.i = 2, !.j = 2]
    /\ UNCHANGED <<states, probes, ticker, engine, manager, ipc, others>>

(* orderedHealthyStates, first loop: one upstream's mark is read under its *)
(* own lock and the upstream is appended when it is healthy.               *)
ExchangeScan ==
    /\ exchange.pc = "scan"
    /\ IF exchange.i <= Len(states)
       THEN LET healthy == states[exchange.i].Healthy
            IN  exchange' = [exchange EXCEPT !.read[exchange.i] = IF healthy THEN "healthy"
                                                                    ELSE "unhealthy",
                                             !.ordered = IF healthy THEN Append(@, exchange.i)
                                                         ELSE @,
                                             !.i = @ + 1]
       ELSE exchange' = [exchange EXCEPT !.pc = "sort", !.i = 2, !.j = 2]
    /\ UNCHANGED <<states, probes, ticker, engine, manager, ipc, others>>

(* orderedHealthyStates, SortStableFunc: an insertion sort below 20         *)
(* elements; each step is one turn of its inner loop and reads the two      *)
(* latencies as they are at that moment.                                    *)
ExchangeSort ==
    /\ exchange.pc = "sort"
    /\ LET o == exchange.ordered
           i == exchange.i
           j == exchange.j
       IN  IF i > Len(o)
           THEN exchange' = [exchange EXCEPT !.pc = "pick", !.i = 0, !.j = 0]
           ELSE IF j > 1 /\ LatencyCmp(states[o[j]].AvgLatency, states[o[j - 1]].AvgLatency) < 0
           THEN exchange' = [exchange EXCEPT !.ordered = [o EXCEPT ![j] = o[j - 1],
                                                                   ![j - 1] = o[j]],
                                             !.j = j - 1]
           ELSE exchange' = [exchange EXCEPT !.i = i + 1, !.j = i + 1]
    /\ UNCHANGED <<states, probes, ticker, engine, manager, ipc, others>>

(* Exchange, lines 75-82: the fallback to all upstreams and the empty case *)
ExchangePick ==
    /\ exchange.pc = "pick"
    /\ LET fb == exchange.ordered = <<>>
           o == IF fb THEN allStates ELSE exchange.ordered
       IN  IF o = <<>>
           THEN exchange' = [exchange EXCEPT !.fallback = fb, !.res = "none", !.pc = "ret"]
           ELSE exchange' = [exchange EXCEPT !.fallback = fb, !.ordered = o, !.i = 1,
                                             !.pc = "send"]
    /\ UNCHANGED <<states, probes, ticker, engine, manager, ipc, others>>

(* The request handed to every upstream left in the order at once *)
ExchangeSendAll ==
    /\ exchange.pc = "send"
    /\ LET us == {exchange.ordered[k] : k \in exchange.i .. Len(exchange.ordered)}
       IN  exchange' = [exchange EXCEPT !.inflight = @ \cup us,
                                        !.sent = [u \in DOMAIN @ |->
                                                     IF u \in us THEN @[u] + 1 ELSE @[u]],
                                        !.pc = "wait"]
    /\ UNCHANGED <<states, probes, ticker, engine, manager, ipc, others>>

(* Exchange, line 86: the request is handed to the next upstream *)
ExchangeSend ==
    /\ exchange.pc = "send"
    /\ LET u == exchange.ordered[exchange.i]
       IN  exchange' = [exchange EXCEPT !.inflight = @ \cup {u},
                                        !.sent[u] = @ + 1,
                                        !.pc = "wait"]
    /\ UNCHANGED <<states, probes, ticker, engine, manager, ipc, others>>

(* Exchange, lines 86-92: the upstream answers or fails *)
ExchangeReply(ok) ==
    /\ exchange.pc = "wait"
    /\ LET u == exchange.ordered[exchange.i]
           e == [exchange EXCEPT !.inflight = @ \ {u},
                                 !.log = Append(@, [up |-> u, ok |-> ok])]
       IN  IF ok
           THEN exchange' = [e EXCEPT !.res = "ok", !.from = u, !.pc = "ret"]
           ELSE IF exchange.i = Len(exchange.ordered)
           THEN exchange' = [e EXCEPT !.err = u, !.res = "err", !.pc = "ret"]
           ELSE exchange' = [e EXCEPT !.err = u, !.i = @ + 1, !.pc = "send"]
    /\ UNCHANGED <<states, probes, ticker, engine, manager, ipc, others>>

(* Exchange has returned; the next call may begin *)
ExchangeReturn ==
    /\ exchange.pc = "ret"
    /\ exchange' = IdleExchange
    /\ UNCHANGED <<states, probes, ticker, engine, manager, ipc, others>>

(* monitorLoop serving every tick as a tick of the healthy ticker *)
monitorLoopHealthyOnly(healthyOnly) ==
    /\ ticker.pc = "idle"
    /\ Len(states) > 0
    /\ ticker' = [pc |-> "healthy", i |-> 1]
    /\ UNCHANGED <<states, probes, exchange, engine, manager, ipc, others>>

(* Close: the context is cancelled and monitorLoop returns from its select *)
Close ==
    /\ ticker.pc = "idle"
    /\ ticker' = [pc |-> "closed", i |-> 0]
    /\ UNCHANGED <<states, probes, exchange, engine, manager, ipc, others>>

(* monitorLoop: a tick of the healthy or of the unhealthy ticker is taken *)
monitorLoop(healthyOnly) ==
    /\ ticker.pc = "idle"
    /\ Len(states) > 0
    /\ ticker' = [pc |-> IF healthyOnly THEN "healthy" ELSE "unhealthy", i |-> 1]
    /\ UNCHANGED <<states, probes, exchange, engine, manager, ipc, others>>

(* probeUpstreams: one turn of its loop; a matching upstream gets a probeOne *)
probeUpstreams ==
    /\ ticker.pc # "idle"
    /\ LET i == ticker.i
           match == states[i].Healthy = (ticker.pc = "healthy")
       IN  /\ i \in DOMAIN states
           /\ match => probes[i] < MaxProbes
           /\ probes' = IF match THEN [probes EXCEPT ![i] = @ + 1] ELSE probes
           /\ ticker' = IF i = Len(states) THEN IdleTicker ELSE [ticker EXCEPT !.i = i + 1]
    /\ UNCHANGED <<states, exchange, engine, manager, ipc, others>>

(* float64(avg)*(1-latencyAlpha) + float64(latency)*latencyAlpha, truncated *)
Ewma(avg, latency) ==
    IF avg = 0 THEN latency
    ELSE (avg * (10 - latencyAlpha) + latency * latencyAlpha) \div 10

(* probeOne whose success leaves the failure counter as it is *)
probeOneNoReset(u, latency) ==
    /\ u \in DOMAIN probes
    /\ probes[u] > 0
    /\ states' = IF latency = 0
                 THEN [states EXCEPT ![u].Failures = IF @ < MaxFailures THEN @ + 1 ELSE @,
                                     ![u].Healthy = IF states[u].Failures + 1 >= failureThreshold
                                                    THEN FALSE ELSE @]
                 ELSE [states EXCEPT ![u].AvgLatency = Ewma(@, latency),
                                     ![u].Healthy = TRUE]
    /\ probes' = [probes EXCEPT ![u] = @ - 1]
    /\ UNCHANGED <<ticker, exchange, engine, manager, ipc, others>>

(* probeOne, lines 260-283: the probe of upstream u ends, with an error or *)
(* the timeout (latency 0) or with an answer after the given latency; the  *)
(* update is made under the upstream's lock. The counter stops growing at *)
(* MaxFailures.                                                            *)
probeOne(u, latency) ==
    /\ u \in DOMAIN probes
    /\ probes[u] > 0
    /\ states' = IF latency = 0
                 THEN [states EXCEPT ![u].Failures = IF @ < MaxFailures THEN @ + 1 ELSE @,
                                     ![u].Healthy = IF states[u].Failures + 1 >= failureThreshold
                                                    THEN FALSE ELSE @]
                 ELSE [states EXCEPT ![u].AvgLatency = Ewma(@, latency),
                                     ![u].Failures = 0,
                                     ![u].Healthy = TRUE]
    /\ probes' = [probes EXCEPT ![u] = @ - 1]
    /\ UNCHANGED <<ticker, exchange, engine, manager, ipc, others>>

----------------------------------------------------------------------------
(* The Process Manager with the pids of its children, the process table of  *)
(* the operating system and the state file, over several runs of the        *)
(* program that holds it. An entry of the process table tells who started   *)
(* the process: the running manager ("mgr"), a manager of an earlier run    *)
(* ("old") or somebody else ("other"); owner "" is a free pid.              *)

Names == {"x", "y"}
Pids == 1 .. MaxPids

FreePid == [owner |-> "", name |-> ""]
NoEntries == [n \in Names |-> 0]
(* boot: no call but StopAll was made since NewManager; err: lastErr of   *)
(* StopAll is set                                                         *)
MgrUp == [pc |-> "up", name |-> "", pid |-> 0, boot |-> FALSE, err |-> FALSE]
MgrDown == [pc |-> "down", name |-> "", pid |-> 0, boot |-> FALSE, err |-> FALSE]
NoMRet == [op |-> "", name |-> "", ok |-> TRUE, pid |-> 0]

(* os.FindProcess and Signal(0): some process runs under the pid *)
PidAlive(tbl, pid) == tbl[pid].owner # ""

(* isRunningLocked of the Manager *)
MgrIsRunning(name) == processes[name] # 0 /\ PidAlive(table, processes[name])

(* saveState writes every entry of Manager.processes, or fails and leaves  *)
(* the file as it was                                                      *)
saveState(entries, saveOk) == IF saveOk THEN entries ELSE stateFile

(* loadState: the entries of the file whose pid answers Signal(0) *)
loadState(file, tbl) ==
    [n \in Names |-> IF file[n] # 0 /\ PidAlive(tbl, file[n]) THEN file[n] ELSE 0]

(* The program holding the Manager ends: its memory and goroutines are     *)
(* gone, its children live on.                                             *)
MgrExit ==
    /\ mgr.pc = "up"
    /\ mgr' = MgrDown
    /\ processes' = NoEntries
    /\ monitors' = {}
    /\ table' = [p \in Pids |-> IF table[p].owner = "mgr" THEN [table[p] EXCEPT !.owner = "old"]
                                ELSE table[p]]
    /\ mret' = NoMRet
    /\ UNCHANGED <<stateFile, engine, resolver, ipc, others>>

(* NewManager *)
NewManager ==
    /\ mgr.pc = "down"
    /\ mgr' = [MgrUp EXCEPT !.boot = TRUE]
    /\ processes' = loadState(stateFile, table)
    /\ mret' = [NoMRet EXCEPT !.op = "NewManager"]
    /\ UNCHANGED <<table, stateFile, monitors, engine, resolver, ipc, others>>

(* Manager.Start *)
MgrStart(name, pid, spawnOk, saveOk) ==
    /\ mgr.pc = "up"
    /\ IF MgrIsRunning(name) \/ ~spawnOk \/ PidAlive(table, pid)
       THEN /\ mret' = [NoMRet EXCEPT !.op = "Start", !.name = name, !.ok = FALSE]
            /\ UNCHANGED <<processes, table, stateFile, monitors>>
       ELSE /\ table' = [table EXCEPT ![pid] = [owner |-> "mgr", name |-> name]]
            /\ processes' = [processes EXCEPT ![name] = pid]
            /\ monitors' = monitors \cup {[name |-> name, pid |-> pid, done |-> FALSE]}
            /\ stateFile' = saveState(processes', saveOk)
            /\ mret' = [op |-> "Start", name |-> name, ok |-> saveOk, pid |-> pid]
    /\ mgr' = MgrUp
    /\ UNCHANGED <<engine, resolver, ipc, others>>

(* What a call returns to, Stop or the loop of StopAll: StopAll returns    *)
(* when no entry is left.                                                  *)
AfterStop(all, entries, boot, err) ==
    IF all /\ entries # NoEntries
    THEN [pc |-> "stopall", name |-> "", pid |-> 0, boot |-> boot, err |-> err]
    ELSE [MgrUp EXCEPT !.boot = all /\ boot]

StopRet(all, name, saveOk, pid, entries, err) ==
    IF ~all THEN [op |-> "Stop", name |-> name, ok |-> saveOk, pid |-> pid]
    ELSE IF entries = NoEntries THEN [NoMRet EXCEPT !.op = "StopAll", !.ok = ~err]
    ELSE NoMRet

(* stopLocked up to the wait for the exit. Only a child of this program    *)
(* can be waited for: for any other process Wait fails at once and the     *)
(* select takes its first case.                                            *)
stopLockedBegin(name, saveOk, all) ==
    LET pid == processes[name] IN
    /\ IF pid = 0
       THEN /\ mret' = [NoMRet EXCEPT !.op = "Stop", !.name = name]
            /\ mgr' = MgrUp
            /\ UNCHANGED <<processes, stateFile>>
       ELSE IF table[pid].owner = "mgr"
       THEN /\ mgr' = [pc |-> IF all THEN "stopallwait" ELSE "stopwait",
                       name |-> name, pid |-> pid, boot |-> all /\ mgr.boot,
                       err |-> mgr.err]
            /\ mret' = NoMRet
            /\ UNCHANGED <<processes, stateFile>>
       ELSE /\ processes' = [processes EXCEPT ![name] = 0]
            /\ stateFile' = saveState(processes', saveOk)
            /\ mret' = StopRet(all, name, saveOk, pid, processes', mgr.err \/ ~saveOk)
            /\ mgr' = AfterStop(all, processes', mgr.boot, mgr.err \/ ~saveOk)
    /\ UNCHANGED <<table, monitors, engine, resolver, ipc, others>>

(* Manager.Stop *)
MgrStopBegin(name, saveOk) ==
    /\ mgr.pc = "up"
    /\ stopLockedBegin(name, saveOk, FALSE)

(* stopLocked from the end of the wait: the child has exited on SIGTERM or *)
(* was killed after the grace period; the entry is deleted and the table   *)
(* saved.                                                                  *)
MgrStopWaited(saveOk) ==
    /\ mgr.pc \in {"stopwait", "stopallwait"}
    /\ table' = [table EXCEPT ![mgr.pid] = FreePid]
    /\ monitors' = {IF m.pid = mgr.pid /\ table[mgr.pid].owner = "mgr"
                    THEN [m EXCEPT !.done = TRUE] ELSE m : m \in monitors}
    /\ processes' = [processes EXCEPT ![mgr.name] = 0]
    /\ stateFile' = saveState(processes', saveOk)
    /\ mret' = StopRet(mgr.pc = "stopallwait", mgr.name, saveOk, mgr.pid, processes',
                        mgr.err \/ ~saveOk)
    /\ mgr' = AfterStop(mgr.pc = "stopallwait", processes', mgr.boot, mgr.err \/ ~saveOk)
    /\ UNCHANGED <<engine, resolver, ipc, others>>

(* Manager.StopAll: with no entry the loop has nothing to do *)
MgrStopAll ==
    /\ mgr.pc = "up"
    /\ mgr' = AfterStop(TRUE, processes, mgr.boot, FALSE)
    /\ mret' = IF processes = NoEntries THEN [NoMRet EXCEPT !.op = "StopAll"] ELSE NoMRet
    /\ UNCHANGED <<processes, table, stateFile, monitors, engine, resolver, ipc, others>>

(* One round of the loop of StopAll *)
MgrStopAllNext(name, saveOk) ==
    /\ mgr.pc = "stopall"
    /\ processes[name] # 0
    /\ stopLockedBegin(name, saveOk, TRUE)

(* Manager.monitor after cmd.Wait has returned *)
MgrMonitor(m, saveOk) ==
    /\ mgr.pc = "up"
    /\ m \in monitors
    /\ m.done
    /\ monitors' = monitors \ {m}
    /\ processes' = [processes EXCEPT ![m.name] = 0]
    /\ stateFile' = saveState(processes', saveOk)
    /\ mret' = NoMRet
    /\ mgr' = MgrUp
    /\ UNCHANGED <<table, engine, resolver, ipc, others>>

(* A process exits by itself; cmd.Wait of its monitor, if it is a child of *)
(* the running manager, returns and the pid is free.                       *)
ProcExit(pid) ==
    /\ PidAlive(table, pid)
    /\ table' = [table EXCEPT ![pid] = FreePid]
    /\ monitors' = {IF m.pid = pid /\ table[pid].owner = "mgr"
                    THEN [m EXCEPT !.done = TRUE] ELSE m : m \in monitors}
    /\ mret' = NoMRet
    /\ UNCHANGED <<processes, stateFile, mgr, engine, resolver, ipc, others>>

(* A program that is not dnstc starts a process, which gets a free pid *)
ForeignSpawn(pid) ==
    /\ ~PidAlive(table, pid)
    /\ table' = [table EXCEPT ![pid] = [owner |-> "other", name |-> ""]]
    /\ mret' = NoMRet
    /\ UNCHANGED <<processes, stateFile, monitors, mgr, engine, resolver, ipc, others>>

InitEngine(c) ==
    /\ cfg = c
    /\ disk = c
    /\ procs = [t \in TagInputs |-> 0]
    /\ child = [k \in Slots |-> NoChild]
    /\ sshTunnels = [t \in TagInputs |-> 0]
    /\ gw = NoGateway
    /\ dnsProxy = FALSE
    /\ ext = {}
    /\ conns = {}
    /\ eng = Idle
    /\ ret = NoRet
    /\ stopped = ""

----------------------------------------------------------------------------
(* The IPC server of the daemon, its clients, the socket file, and         *)
(* EnsureDaemon. A request line is what json.Unmarshal and dispatch see of *)
(* it, with len its length in bytes, newline included.                     *)

Daemons == 1 .. MaxDaemons
ConnIds == 1 .. MaxIPCConns

TunnelMethods == {"start_tunnel", "stop_tunnel", "restart_tunnel", "activate_tunnel"}
EngineMethods == {"start", "stop", "reload_config"}
QueryMethods == {"status", "get_config", "is_connected"}

Line(json, method, params, len) ==
    [json |-> json, method |-> method, params |-> params, len |-> len]

PingLine == Line(TRUE, "ping", "absent", 1)

(* Response with its two omitempty fields; engine: the handler called the  *)
(* engine, shutdown: it signalled ShutdownCh                               *)
Response(result, error, called, shutdown) ==
    [Result |-> result, Error |-> error, engine |-> called, shutdown |-> shutdown]

(* Server.ok, Server.errResp, Server.resultJSON *)
okResp(called, shutdown) == Response("", "", called, shutdown)
errResp(msg, called) == Response("", msg, called, FALSE)
resultJSON(v, called) == Response(v, "", called, FALSE)

(* Server.parseTag: "" when the tag is there, else the error *)
parseTag(req) ==
    IF req.params = "absent" THEN "missing params"
    ELSE IF req.params = "invalid" THEN "invalid params"
    ELSE IF req.params = "emptytag" THEN "tag is required"
    ELSE ""

(* Server.dispatch; engineOk is the outcome of the engine call if one is made *)
dispatch(req, engineOk) ==
    IF req.method = "ping" THEN resultJSON("{version,pid}", FALSE)
    ELSE IF req.method = "shutdown" THEN okResp(FALSE, TRUE)
    ELSE IF req.method \in EngineMethods
    THEN IF engineOk THEN okResp(TRUE, FALSE) ELSE errResp("engine error", TRUE)
    ELSE IF req.method \in TunnelMethods
    THEN IF parseTag(req) # "" THEN errResp(parseTag(req), FALSE)
         ELSE IF engineOk THEN okResp(TRUE, FALSE) ELSE errResp("engine error", TRUE)
    ELSE IF req.method \in QueryMethods THEN resultJSON("{...}", TRUE)
    ELSE errResp("unknown method", FALSE)

(* The body of the loop of handleConn that answers only what it can parse *)
handleLineSilent(req, engineOk) ==
    IF ~req.json THEN <<>> ELSE <<dispatch(req, engineOk)>>

(* The body of the loop of handleConn: the responses it encodes for a line *)
handleLine(req, engineOk) ==
    IF ~req.json THEN <<errResp("invalid request", FALSE)>>
    ELSE <<dispatch(req, engineOk)>>

(* bufio.Scanner with Buffer(_, 1024*1024): a line is a token when it fits *)
(* the buffer together with its newline                                    *)
Fits(req) == req.len <= MaxTokenSize

NoDaemon == [pc |-> "off", ln |-> "none", accepting |-> FALSE, shutdownCh |-> 0]
FreeConn == [st |-> "free", cli |-> "closed", d |-> 0, sent |-> <<>>, next |-> 0, cur |-> 0,
             out |-> <<>>, for |-> <<>>]
IdleLaunch == [pc |-> "idle", conn |-> 0, spawned |-> FALSE, polls |-> 0]

(* net.Dial reaches a listener: the file names a socket that listens *)
Dialable == sockFile # 0 /\ daemon[sockFile].ln = "open"

(* The handlers of a daemon that have not returned *)
Handlers(d) == {c \in ConnIds : ipcConns[c].d = d /\ ipcConns[c].st = "open"}

(* DetectDaemon against a daemon that answers the ping: the file it leaves *)
DetectCleanup == IF Dialable THEN sockFile ELSE 0

(* dnstc daemon run up to the engine: DetectDaemon, then config and engine *)
DaemonRun(d) ==
    /\ daemon[d].pc \in {"off", "spawned"}
    /\ sockFile' = DetectCleanup
    /\ daemon' = [daemon EXCEPT ![d].pc = IF Dialable THEN "exited" ELSE "setup"]
    /\ UNCHANGED <<ipcConns, launch, engine, resolver, manager, others>>

(* Server.Start: stat and remove *)
SrvStart(d) ==
    /\ daemon[d].pc = "setup"
    /\ sockFile' = 0
    /\ daemon' = [daemon EXCEPT ![d].pc = "binding"]
    /\ UNCHANGED <<ipcConns, launch, engine, resolver, manager, others>>

(* Server.Start: net.Listen, which fails on an existing file, and the      *)
(* accept loop                                                             *)
SrvListen(d) ==
    /\ daemon[d].pc = "binding"
    /\ IF sockFile # 0
       THEN /\ daemon' = [daemon EXCEPT ![d].pc = "exited"]
            /\ UNCHANGED sockFile
       ELSE /\ sockFile' = d
            /\ daemon' = [daemon EXCEPT ![d] = [pc |-> "serving", ln |-> "open",
                                                accepting |-> TRUE, shutdownCh |-> 0]]
    /\ UNCHANGED <<ipcConns, launch, engine, resolver, manager, others>>

(* acceptLoop: Accept returns a connection and its handler starts *)
Accept(c) ==
    /\ ipcConns[c].st = "backlog"
    /\ daemon[ipcConns[c].d].accepting
    /\ daemon[ipcConns[c].d].ln = "open"
    /\ ipcConns' = [ipcConns EXCEPT ![c].st = "open"]
    /\ UNCHANGED <<sockFile, daemon, launch, engine, resolver, manager, others>>

(* handleConn: scanner.Scan returns the next line, or false on a line that *)
(* does not fit or at the end of the stream, and the connection is closed  *)
HandleScan(c) ==
    LET k == ipcConns[c] IN
    /\ k.st = "open"
    /\ k.cur = 0
    /\ IF k.next < Len(k.sent)
       THEN ipcConns' = [ipcConns EXCEPT ![c] =
                IF Fits(k.sent[k.next + 1])
                THEN [k EXCEPT !.next = k.next + 1, !.cur = k.next + 1]
                ELSE [k EXCEPT !.st = "closed"]]
       ELSE /\ k.cli = "closed"
            /\ ipcConns' = [ipcConns EXCEPT ![c].st = "closed"]
    /\ UNCHANGED <<sockFile, daemon, launch, engine, resolver, manager, others>>

(* handleConn: Unmarshal, dispatch and Encode for the line scanned *)
HandleDispatch(c, engineOk) ==
    LET k == ipcConns[c]
        resps == handleLine(k.sent[k.cur], engineOk)
    IN  /\ k.st = "open"
        /\ k.cur # 0
        /\ ipcConns' = [ipcConns EXCEPT ![c].cur = 0,
                                        ![c].out = k.out \o resps,
                                        ![c].for = k.for \o [i \in 1 .. Len(resps) |-> k.cur]]
        /\ daemon' = IF \E i \in 1 .. Len(resps) : resps[i].shutdown
                     THEN [daemon EXCEPT ![k.d].shutdownCh = 1] ELSE daemon
        /\ UNCHANGED <<sockFile, launch, engine, resolver, manager, others>>

(* daemon run: the select returns on ShutdownCh or on a signal; the engine *)
(* is stopped and Server.Stop closes the listener, which resets what waits *)
(* in its backlog                                                          *)
DaemonSelect(d, sig) ==
    /\ daemon[d].pc = "serving"
    /\ sig \/ daemon[d].shutdownCh = 1
    /\ daemon' = [daemon EXCEPT ![d].pc = "draining", ![d].ln = "closed"]
    /\ ipcConns' = [c \in ConnIds |->
                      IF ipcConns[c].d = d /\ ipcConns[c].st = "backlog"
                      THEN [ipcConns[c] EXCEPT !.st = "closed"] ELSE ipcConns[c]]
    /\ UNCHANGED <<sockFile, launch, engine, resolver, manager, others>>

(* acceptLoop returns when Accept fails on the closed listener *)
AcceptLoopExit(d) ==
    /\ daemon[d].accepting
    /\ daemon[d].ln = "closed"
    /\ daemon' = [daemon EXCEPT ![d].accepting = FALSE]
    /\ UNCHANGED <<sockFile, ipcConns, launch, engine, resolver, manager, others>>

(* Server.Stop: wg.Wait returns when the accept loop and every handler     *)
(* have returned; the socket path is removed and the daemon exits          *)
SrvStop(d) ==
    /\ daemon[d].pc = "draining"
    /\ ~daemon[d].accepting
    /\ Handlers(d) = {}
    /\ sockFile' = 0
    /\ daemon' = [daemon EXCEPT ![d].pc = "exited"]
    /\ UNCHANGED <<ipcConns, launch, engine, resolver, manager, others>>

(* The daemon is killed: its sockets are closed, the file stays *)
DaemonCrash(d) ==
    /\ daemon[d].pc \in {"serving", "draining"}
    /\ daemon' = [daemon EXCEPT ![d] = [pc |-> "exited", ln |-> "closed",
                                        accepting |-> FALSE, shutdownCh |-> 0]]
    /\ ipcConns' = [c \in ConnIds |->
                      IF ipcConns[c].d = d /\ ipcConns[c].st \in {"backlog", "open"}
                      THEN [ipcConns[c] EXCEPT !.st = "closed", !.cur = 0] ELSE ipcConns[c]]
    /\ UNCHANGED <<sockFile, launch, engine, resolver, manager, others>>

(* Dial by a client *)
ClientDial(c) ==
    /\ ipcConns[c].st = "free"
    /\ launch.conn # c
    /\ Dialable
    /\ ipcConns' = [ipcConns EXCEPT ![c] = [FreeConn EXCEPT !.st = "backlog", !.cli = "open",
                                                           !.d = sockFile]]
    /\ UNCHANGED <<sockFile, daemon, launch, engine, resolver, manager, others>>

(* A client writes a request line *)
ClientSend(c, req) ==
    /\ launch.conn # c
    /\ ipcConns[c].cli = "open"
    /\ ipcConns[c].st \in {"backlog", "open"}
    /\ Len(ipcConns[c].sent) < MaxLines
    /\ ipcConns' = [ipcConns EXCEPT ![c].sent = Append(@, req)]
    /\ UNCHANGED <<sockFile, daemon, launch, engine, resolver, manager, others>>

(* Client.Close *)
ClientClose(c) ==
    /\ launch.conn # c
    /\ ipcConns[c].cli = "open"
    /\ ipcConns' = [ipcConns EXCEPT ![c].cli = "closed"]
    /\ UNCHANGED <<sockFile, daemon, launch, engine, resolver, manager, others>>

(* DetectDaemon of a command line client, which closes the connection *)
ClientDetect ==
    /\ sockFile' = DetectCleanup
    /\ UNCHANGED <<daemon, ipcConns, launch, engine, resolver, manager, others>>

(* EnsureDaemon, DetectDaemon: stat and Dial; a failed Dial removes the    *)
(* file; after a Dial the ping is written                                  *)
EnsureDial(c) ==
    /\ launch.pc = "detect"
    /\ IF sockFile = 0
       THEN /\ launch' = [launch EXCEPT !.pc = "absent"]
            /\ UNCHANGED <<sockFile, ipcConns>>
       ELSE IF ~Dialable
       THEN /\ sockFile' = 0
            /\ launch' = [launch EXCEPT !.pc = "absent"]
            /\ UNCHANGED ipcConns
       ELSE /\ ipcConns[c].st \in {"free", "closed"}
            /\ ipcConns[c].cli = "closed"
            /\ ipcConns' = [ipcConns EXCEPT ![c] = [FreeConn EXCEPT !.st = "backlog",
                                !.cli = "open", !.d = sockFile, !.sent = <<PingLine>>]]
            /\ launch' = [launch EXCEPT !.pc = "ping", !.conn = c]
            /\ UNCHANGED sockFile
    /\ UNCHANGED <<daemon, engine, resolver, manager, others>>

(* EnsureDaemon, DetectDaemon: Client.call returns from scanner.Scan with  *)
(* the response or with the end of the stream; a failed ping closes the    *)
(* client and removes the file                                             *)
EnsurePing ==
    /\ launch.pc = "ping"
    /\ LET c == launch.conn
           k == ipcConns[c]
       IN  /\ k.out # <<>> \/ k.st = "closed"
           /\ IF k.out # <<>> /\ k.out[1].Error = ""
              THEN /\ launch' = [launch EXCEPT !.pc = "client"]
                   /\ UNCHANGED <<sockFile, ipcConns>>
              ELSE /\ launch' = [launch EXCEPT !.pc = "absent", !.conn = 0]
                   /\ ipcConns' = [ipcConns EXCEPT ![c].cli = "closed"]
                   /\ sockFile' = 0
    /\ UNCHANGED <<daemon, engine, resolver, manager, others>>

(* EnsureDaemon after a DetectDaemon that found no daemon: the first time  *)
(* the supervisor is spawned, later the deadline is looked at              *)
EnsureSpawn(d, spawnOk) ==
    /\ launch.pc = "absent"
    /\ ~launch.spawned
    /\ daemon[d].pc = "off"
    /\ IF spawnOk
       THEN /\ daemon' = [daemon EXCEPT ![d].pc = "spawned"]
            /\ launch' = [launch EXCEPT !.pc = "sleep", !.spawned = TRUE]
       ELSE /\ launch' = [launch EXCEPT !.pc = "error"]
            /\ UNCHANGED daemon
    /\ UNCHANGED <<sockFile, ipcConns, engine, resolver, manager, others>>

(* EnsureDaemon, the polling loop: the deadline has passed after MaxPolls  *)
(* polls at the latest                                                     *)
EnsurePoll(late) ==
    /\ launch.spawned
    /\ launch.pc \in {"sleep", "absent"}
    /\ IF launch.pc = "absent" /\ (late \/ launch.polls >= MaxPolls)
       THEN launch' = [launch EXCEPT !.pc = "error"]
       ELSE launch' = [launch EXCEPT !.pc = "detect", !.polls = launch.polls + 1]
    /\ UNCHANGED <<sockFile, daemon, ipcConns, engine, resolver, manager, others>>

(* EnsureDaemon is called *)
EnsureDaemon ==
    /\ launch.pc = "idle"
    /\ launch' = [launch EXCEPT !.pc = "detect"]
    /\ UNCHANGED <<sockFile, daemon, ipcConns, engine, resolver, manager, others>>

(* No daemon, no socket file, no client *)
InitNoIPC ==
    /\ sockFile = 0
    /\ daemon = [d \in Daemons |-> NoDaemon]
    /\ ipcConns = [c \in ConnIds |-> FreeConn]
    /\ launch = IdleLaunch

----------------------------------------------------------------------------
(* The SSH adapter (sshtunnel.Tunnel) after Start: its SOCKS5 listener,    *)
(* the handlers of its connections and Stop. What a client sends is fixed  *)
(* when it connects: the version bytes, the command, the address type and  *)
(* how much of the handshake it writes before it goes idle (parts: 0       *)
(* nothing, 1 the greeting, 2 also the request header, 3 the whole         *)
(* request).                                                               *)

SocksIds == 1 .. MaxSocks

(* Whole handshakes of every kind, and a well-formed one cut short *)
SocksInputs ==
    [gver : {socks5Version, 4}, rver : {socks5Version, 4}, cmd : {socks5CmdConnect, 2},
     atyp : {socks5AddrIPv4, socks5AddrDomain, socks5AddrIPv6, 5}, parts : {3}]
    \cup [gver : {socks5Version}, rver : {socks5Version}, cmd : {socks5CmdConnect},
          atyp : {socks5AddrDomain, 5}, parts : 0 .. 2]

NoInput == [gver |-> 0, rver |-> 0, cmd |-> 0, atyp |-> 0, parts |-> 0]

FreeSocks == [st |-> "free", cli |-> "closed", in |-> NoInput, pc |-> "", sent |-> <<>>,
              dials |-> 0, remote |-> "none", relay |-> FALSE]

Running == [st |-> "running", ln |-> "open", client |-> "open", accepting |-> TRUE]

(* socks5Handshake after the request header that answers 0x08 to a        *)
(* command it does not support                                            *)
socks5HeaderReplyAtyp(in) ==
    IF in.rver # socks5Version THEN [reply |-> <<>>, ok |-> FALSE]
    ELSE IF in.cmd # socks5CmdConnect THEN [reply |-> <<8>>, ok |-> FALSE]
    ELSE IF in.atyp \notin {socks5AddrIPv4, socks5AddrDomain, socks5AddrIPv6}
    THEN [reply |-> <<8>>, ok |-> FALSE]
    ELSE [reply |-> <<>>, ok |-> TRUE]

(* socks5Handshake after the request header: the reply it sends, if any,  *)
(* and whether it goes on to read the address                             *)
socks5Header(in) ==
    IF in.rver # socks5Version THEN [reply |-> <<>>, ok |-> FALSE]
    ELSE IF in.cmd # socks5CmdConnect THEN [reply |-> <<7>>, ok |-> FALSE]
    ELSE IF in.atyp \notin {socks5AddrIPv4, socks5AddrDomain, socks5AddrIPv6}
    THEN [reply |-> <<8>>, ok |-> FALSE]
    ELSE [reply |-> <<>>, ok |-> TRUE]

(* handleConn returns: wg.Done and conn.Close, and remote.Close if dialed *)
Returned(k) == [k EXCEPT !.st = "closed", !.pc = "end",
                         !.remote = IF k.remote = "none" THEN "none" ELSE "closed"]

(* A read of the handler for part n of the handshake can go on: the part  *)
(* is there, or the client has closed                                     *)
CanRead(k, n) == k.in.parts >= n \/ k.cli = "closed"

(* A client connects to the SOCKS5 listener *)
SocksConnect(c, in) ==
    /\ socks[c].st = "free"
    /\ adapter.ln = "open"
    /\ socks' = [socks EXCEPT ![c] = [FreeSocks EXCEPT !.st = "backlog", !.cli = "open",
                                                      !.in = in]]
    /\ UNCHANGED <<adapter, base, besideSsh5>>

(* The client closes its end *)
SocksClose(c) ==
    /\ socks[c].cli = "open"
    /\ socks[c].st # "free"
    /\ socks' = [socks EXCEPT ![c].cli = "closed"]
    /\ UNCHANGED <<adapter, base, besideSsh5>>

(* Tunnel.acceptLoop: Accept returns a connection, handleConn starts *)
TunnelAccept(c) ==
    /\ socks[c].st = "backlog"
    /\ adapter.accepting
    /\ adapter.ln = "open"
    /\ socks' = [socks EXCEPT ![c].st = "open", ![c].pc = "greeting"]
    /\ UNCHANGED <<adapter, base, besideSsh5>>

(* socks5Handshake: version and methods are read, the method is answered *)
socks5Greeting(c) ==
    LET k == socks[c] IN
    /\ k.st = "open"
    /\ k.pc = "greeting"
    /\ CanRead(k, 1)
    /\ socks' = [socks EXCEPT ![c] =
          IF k.in.parts < 1 \/ k.in.gver # socks5Version THEN Returned(k)
          ELSE [k EXCEPT !.pc = "header", !.sent = Append(k.sent, 0)]]
    /\ UNCHANGED <<adapter, base, besideSsh5>>

(* socks5Handshake: the request header is read and checked *)
socks5Request(c) ==
    LET k == socks[c]
        h == socks5Header(k.in)
    IN  /\ k.st = "open"
        /\ k.pc = "header"
        /\ CanRead(k, 2)
        /\ socks' = [socks EXCEPT ![c] =
              IF k.in.parts < 2 THEN Returned(k)
              ELSE IF ~h.ok THEN Returned([k EXCEPT !.sent = k.sent \o h.reply])
              ELSE [k EXCEPT !.pc = "addr"]]
        /\ UNCHANGED <<adapter, base, besideSsh5>>

(* socks5Handshake: address and port are read *)
socks5Addr(c) ==
    LET k == socks[c] IN
    /\ k.st = "open"
    /\ k.pc = "addr"
    /\ CanRead(k, 3)
    /\ socks' = [socks EXCEPT ![c] =
          IF k.in.parts < 3 THEN Returned(k) ELSE [k EXCEPT !.pc = "dial"]]
    /\ UNCHANGED <<adapter, base, besideSsh5>>

(* handleConn: the dial through the SSH client and the reply *)
handleConnDial(c, dialOk) ==
    LET k == socks[c] IN
    /\ k.st = "open"
    /\ k.pc = "dial"
    /\ socks' = [socks EXCEPT ![c] =
          IF dialOk /\ adapter.client = "open"
          THEN [k EXCEPT !.pc = "relay", !.dials = k.dials + 1, !.remote = "open",
                         !.sent = Append(k.sent, 0), !.relay = TRUE]
          ELSE Returned([k EXCEPT !.dials = k.dials + 1, !.sent = Append(k.sent, 5)])]
    /\ UNCHANGED <<adapter, base, besideSsh5>>

(* The far end of the SSH channel closes *)
RemoteClose(c) ==
    /\ socks[c].remote = "open"
    /\ socks' = [socks EXCEPT ![c].remote = "closed"]
    /\ UNCHANGED <<adapter, base, besideSsh5>>

(* handleConn: relayWg.Wait returns when both copies have ended, the one  *)
(* from the client at the end of its stream, the one from the remote when *)
(* the channel is closed                                                  *)
handleConnRelayed(c) ==
    LET k == socks[c] IN
    /\ k.st = "open"
    /\ k.pc = "relay"
    /\ k.cli = "closed"
    /\ k.remote = "closed"
    /\ socks' = [socks EXCEPT ![c] = Returned(k)]
    /\ UNCHANGED <<adapter, base, besideSsh5>>

(* Tunnel.Stop up to wg.Wait: done, the listener and the SSH client are   *)
(* closed; the channels of the client are closed with it, the accepted    *)
(* connections are not                                                    *)
TunnelStop ==
    /\ adapter.st = "running"
    /\ adapter' = [adapter EXCEPT !.st = "stopping", !.ln = "closed", !.client = "closed"]
    /\ socks' = [c \in SocksIds |->
                   IF socks[c].st = "backlog" THEN [socks[c] EXCEPT !.st = "closed"]
                   ELSE IF socks[c].remote = "open" THEN [socks[c] EXCEPT !.remote = "closed"]
                   ELSE socks[c]]
    /\ UNCHANGED <<base, besideSsh5>>

(* Tunnel.acceptLoop returns: Accept failed and done is closed *)
TunnelAcceptExit ==
    /\ adapter.accepting
    /\ adapter.ln = "closed"
    /\ adapter' = [adapter EXCEPT !.accepting = FALSE]
    /\ UNCHANGED <<socks, base, besideSsh5>>

(* Tunnel.Stop returns: wg.Wait has seen the accept loop and every        *)
(* handler return                                                         *)
TunnelStopped ==
    /\ adapter.st = "stopping"
    /\ ~adapter.accepting
    /\ \A c \in SocksIds : socks[c].st # "open"
    /\ adapter' = [adapter EXCEPT !.st = "stopped"]
    /\ UNCHANGED <<socks, base, besideSsh5>>

(* No SSH adapter of its own: a stopped one, no connection *)
InitNoAdapter ==
    /\ adapter = [st |-> "stopped", ln |-> "closed", client |-> "closed", accepting |-> FALSE]
    /\ socks = [c \in SocksIds |-> FreeSocks]

----------------------------------------------------------------------------
(* The config file: Config.SaveToPath writes it, LoadFromPath reads it.    *)
(* The file is a sequence of tokens; a config has an active tag and tags   *)
(* of tunnels.                                                             *)

FileConfigs == [active : {"", "a"}, tags : {<<"a">>, <<"a", "b">>}]

(* json.MarshalIndent *)
Marshal(c) == <<"{", c.active>> \o c.tags \o <<"}">>

(* json.Unmarshal: an object that is not closed is a syntax error *)
Unmarshal(data) ==
    IF Len(data) >= 3 /\ data[1] = "{" /\ data[Len(data)] = "}"
    THEN [err |-> "", cfg |-> [active |-> data[2], tags |-> SubSeq(data, 3, Len(data) - 1)]]
    ELSE [err |-> "failed to parse config", cfg |-> [active |-> "", tags |-> <<>>]]

NoSave == [pc |-> "idle", data |-> <<>>, err |-> "", n |-> 0, old |-> <<>>]
NoLoad == [done |-> FALSE, err |-> "", cfg |-> [active |-> "", tags |-> <<>>], whole |-> {},
           during |-> FALSE]

(* The last whole content of the file (kept for the properties): the file *)
(* if it parses, else the one remembered                                   *)
LastWhole == IF Unmarshal(cfgFile).err = "" THEN cfgFile ELSE save.old

(* SaveToPath up to the open of os.WriteFile, with O_TRUNC *)
SaveOpen(c, openOk) ==
    /\ save.pc = "idle"
    /\ save.n < MaxSaves
    /\ IF openOk
       THEN /\ cfgFile' = <<>>
            /\ save' = [save EXCEPT !.pc = "write", !.data = Marshal(c), !.err = "",
                                    !.n = save.n + 1, !.old = LastWhole]
       ELSE /\ save' = [save EXCEPT !.err = "failed to write config file", !.n = save.n + 1,
                                    !.data = Marshal(c), !.old = LastWhole]
            /\ UNCHANGED cfgFile
    /\ UNCHANGED <<loaded, base, besideFiles>>

(* os.WriteFile: the write of the data, of which n tokens reach the file, *)
(* and the close                                                          *)
SaveWrite(n) ==
    /\ save.pc = "write"
    /\ n \in 0 .. Len(save.data)
    /\ cfgFile' = SubSeq(save.data, 1, n)
    /\ save' = [save EXCEPT !.pc = "idle",
                            !.err = IF n = Len(save.data) THEN ""
                                    ELSE "failed to write config file"]
    /\ UNCHANGED <<loaded, base, besideFiles>>

(* LoadFromPath: os.ReadFile and json.Unmarshal *)
LoadFromPath ==
    /\ loaded' = [done |-> TRUE, err |-> Unmarshal(cfgFile).err, cfg |-> Unmarshal(cfgFile).cfg,
                  whole |-> {save.old, save.data}, during |-> save.pc = "write"]
    /\ UNCHANGED <<cfgFile, save, base, besideFiles>>

(* No config file of its own *)
InitNoFiles ==
    /\ cfgFile = <<>>
    /\ save = NoSave
    /\ loaded = NoLoad

InitOthers == InitNoAdapter /\ InitNoFiles /\ statusCall = NoStatus /\ proxies = NotCounted

(* The adapter right after Start, with no connection *)
InitAdapter ==
    /\ adapter = Running
    /\ socks = [c \in SocksIds |-> FreeSocks]

(* NewManager over no state file, on a machine with no process yet *)
InitProcesses ==
    /\ processes = NoEntries
    /\ table = [p \in Pids |-> FreePid]
    /\ stateFile = NoEntries
    /\ monitors = {}
    /\ mgr = MgrUp
    /\ mret = NoMRet

(* The resolver before the DNS Proxy is started: no upstream exists *)
InitNoResolver ==
    /\ states = <<>>
    /\ probes = <<>>
    /\ ticker = IdleTicker
    /\ exchange = IdleExchange

(* The engine before any DNS Proxy was started: no upstream exists *)
InitWith(c) ==
    /\ InitEngine(c)
    /\ states = <<>>
    /\ probes = <<>>
    /\ ticker = IdleTicker
    /\ exchange = IdleExchange
    /\ InitProcesses
    /\ InitNoIPC
    /\ InitOthers

Init == InitWith(InitConfig)

(* The failures the environment may inject into a call: of a tunnel start, *)
(* of the Gateway start, and of a write or read of the config or state file *)
AllFaults == [tunnel |-> Faults, gw |-> GwFaults, io |-> BOOLEAN]
NoFaults == [tunnel |-> {"none"}, gw |-> {"none"}, io |-> {TRUE}]
TunnelFaults == [AllFaults EXCEPT !.gw = {"none"}]

RECURSIVE ChoiceSeqs(_, _)
ChoiceSeqs(F, i) ==
    IF i > Len(cfg.tunnels) THEN {<<>>}
    ELSE {<<c>> \o r : c \in {x \in StartChoices(cfg.tunnels[i].tag) : x.fault \in F.tunnel},
                       r \in ChoiceSeqs(F, i + 1)}

CallStart(F) ==
    \E dnsOk \in F.io, g \in {x \in GwChoices : x.fault \in F.gw}, chs \in ChoiceSeqs(F, 1) :
        EngStart(dnsOk, g, chs)

CallStartTunnel(F) ==
    \E tag \in TagInputs, dnsOk \in DNSChoices(~dnsProxy) \cap F.io, g \in GwChoices :
        \E ch \in IF IsRunning(CurE, tag) THEN StartChoices(tag) ELSE TunnelChoices(tag, ~gw.set) :
            /\ g.fault \in F.gw
            /\ ch.fault \in F.tunnel
            /\ EngStartTunnel(tag, dnsOk, ch, g)

CallStopTunnel(F) ==
    \E tag \in TagInputs :
        \E saveOk \in DNSChoices(procs[tag] # 0) \cap F.io : EngStopTunnel(tag, saveOk)

CallRestartTunnel(F) ==
    \E tag \in TagInputs :
        \E ch \in TunnelChoices(tag, FALSE) : ch.fault \in F.tunnel /\ EngRestartTunnel(tag, ch)

CallActivateTunnel(F) ==
    \E tag \in TagInputs, saveOk \in F.io : EngActivateTunnel(tag, saveOk)

CallReloadConfig(F) == \E loadOk \in F.io : EngReloadConfig(loadOk)

CallStop == StopBegin \/ StopProcs \/ StopGw \/ StopGwWait \/ StopDNS

Children ==
    \/ \E c \in Slots : ChildBind(c)
    \/ \E c \in Slots : ChildExit(c)
    \/ \E c \in Slots : MonitorReap(c)

Bootstrap ==
    \/ \E c \in Slots : BootWaitOk(c)
    \/ \E c \in Slots : BootWaitTimeout(c)
    \/ \E c \in Slots : BootSSHOk(c)
    \/ \E c \in Slots : BootSSHFail(c)
    \/ \E c \in Slots : BootInstall(c)
    \/ \E c \in Slots : SSHSessionDies(c)

Relay ==
    \/ GwAccept
    \/ \E c \in conns, dialOk \in BOOLEAN : GwResolve(c, dialOk)
    \/ \E c \in conns : GwClose(c)

Outside ==
    \/ \E p \in ExtPorts : ExtBind(p)
    \/ \E p \in ExtPorts : ExtRelease(p)

Edits == \E a \in ListenEdits : ExternalEdit(a)

Resolve ==
    \/ ExchangeBegin
    \/ ExchangeScan
    \/ ExchangeSort
    \/ ExchangePick
    \/ ExchangeSend
    \/ \E ok \in BOOLEAN : ExchangeReply(ok)
    \/ ExchangeReturn

Probing ==
    \/ \E healthyOnly \in BOOLEAN : monitorLoop(healthyOnly)
    \/ probeUpstreams
    \/ \E u \in 1 .. ProbedUpstreams, latency \in {0} \cup Latencies : probeOne(u, latency)

Next ==
    \/ CallStart(AllFaults)
    \/ CallStartTunnel(AllFaults)
    \/ CallStopTunnel(AllFaults)
    \/ EngStopTunnelDone
    \/ CallRestartTunnel(AllFaults)
    \/ CallActivateTunnel(AllFaults)
    \/ CallReloadConfig(AllFaults)
    \/ CallStop
    \/ Children
    \/ Bootstrap
    \/ Relay
    \/ Outside
    \/ Edits
    \/ Resolve
    \/ Probing

Spec == Init /\ [][Next]_vars

(* Routing: socks tunnels, the Gateway, its connections and its port *)

RouteConfig ==
    [listen |-> Addr(DefaultGatewayPort), active |-> "",
     tunnels |-> <<[TunnelA EXCEPT !.backend = "socks"], TunnelB>>]

InitRoute == InitWith(RouteConfig)

NextRoute ==
    \/ CallStartTunnel(NoFaults)
    \/ CallStopTunnel(NoFaults)
    \/ EngStopTunnelDone
    \/ CallActivateTunnel(NoFaults)
    \/ Children
    \/ Relay

SpecRoute == InitRoute /\ [][NextRoute]_vars

(* The target resolver: the exposed port of a tunnel and listen.socks *)

NextResolve ==
    \/ CallStartTunnel(NoFaults)
    \/ CallStopTunnel(NoFaults)
    \/ EngStopTunnelDone
    \/ CallRestartTunnel(NoFaults)
    \/ CallActivateTunnel(NoFaults)
    \/ CallReloadConfig(NoFaults)
    \/ Children
    \/ Outside
    \/ Edits

SpecResolve == InitRoute /\ [][NextResolve]_vars

(* The life of an ssh tunnel *)

InitSSH == InitWith([InitConfig EXCEPT !.tunnels = <<TunnelA>>])

NextSSH ==
    \/ CallStart(TunnelFaults)
    \/ CallStartTunnel(TunnelFaults)
    \/ CallStopTunnel(TunnelFaults)
    \/ EngStopTunnelDone
    \/ CallRestartTunnel(TunnelFaults)
    \/ CallStop
    \/ Children
    \/ Bootstrap

SpecSSH == InitSSH /\ [][NextSSH]_vars

(* The Gateway and its port *)

InitGateway == InitWith([InitConfig EXCEPT !.tunnels = <<TunnelB>>])

NextGateway ==
    \/ CallStart(AllFaults)
    \/ CallStartTunnel(AllFaults)
    \/ CallStopTunnel(AllFaults)
    \/ EngStopTunnelDone
    \/ CallStop
    \/ Children
    \/ Outside

SpecGateway == InitGateway /\ [][NextGateway]_vars

(* Route changes with failing saves and loads, next to tunnel starts and   *)
(* stops and edits of the config file.                                     *)
NextActivate ==
    \/ CallStartTunnel(NoFaults)
    \/ CallStopTunnel(NoFaults)
    \/ EngStopTunnelDone
    \/ CallActivateTunnel(AllFaults)
    \/ CallReloadConfig(AllFaults)
    \/ Children
    \/ Edits

SpecActivate == InitRoute /\ [][NextActivate]_vars

(* One tunnel of every transport and backend a config file can name: Load *)
(* does not validate, so the pair is arbitrary.                            *)
Transports == {"slipstream", "dnstt", "other"}
Backends == {"socks", "shadowsocks", "ssh"}

PairConfig(tr, b) ==
    [InitConfig EXCEPT !.tunnels = <<[TunnelA EXCEPT !.transport = tr, !.backend = b]>>]

InitPairs == \E tr \in Transports, b \in Backends : InitWith(PairConfig(tr, b))

NextPairs ==
    \/ CallStartTunnel(TunnelFaults)
    \/ CallStopTunnel(NoFaults)
    \/ EngStopTunnelDone
    \/ Children
    \/ Bootstrap

SpecPairs == InitPairs /\ [][NextPairs]_vars

(* Engine.Start over every combination of enabled flags *)

EnabledValues == {"absent", "true", "false"}

StartConfig(ea, eb) ==
    [RouteConfig EXCEPT !.tunnels = <<[RouteConfig.tunnels[1] EXCEPT !.enabled = ea],
                                       [RouteConfig.tunnels[2] EXCEPT !.enabled = eb]>>]

InitStart == \E ea \in EnabledValues, eb \in EnabledValues : InitWith(StartConfig(ea, eb))

NextStart ==
    \/ CallStart(AllFaults)
    \/ CallStop
    \/ Children

SpecStart == InitStart /\ [][NextStart]_vars

(* Exchange on a resolver of up to MaxUpstreams upstreams in any state the *)
(* probes can leave them in; no probe runs during the calls.               *)
QuietStates ==
    {UpstreamState(f < failureThreshold, l, f) : l \in {0} \cup Latencies,
                                                f \in {0, failureThreshold}}

InitOrder ==
    /\ InitEngine(InitConfig)
    /\ \E n \in 0 .. MaxUpstreams : /\ states \in [1 .. n -> QuietStates]
                                    /\ probes = [u \in 1 .. n |-> 0]
    /\ ticker = IdleTicker
    /\ exchange = IdleExchange
    /\ InitProcesses
    /\ InitNoIPC
    /\ InitOthers

NextOrder ==
    \/ ExchangeBegin
    \/ ExchangeScan
    \/ ExchangeSort
    \/ ExchangePick
    \/ ExchangeSend
    \/ \E ok \in BOOLEAN : ExchangeReply(ok)
    \/ ExchangeReturn

SpecOrder == InitOrder /\ [][NextOrder]_vars

(* A resolver from NewHealthAwareUpstream on: monitorLoop and its probes   *)
(* run next to Exchange calls.                                             *)
InitDNS ==
    /\ InitEngine(InitConfig)
    /\ \E n \in 0 .. ProbedUpstreams : /\ states = NewHealthAwareUpstream(n)
                                       /\ probes = [u \in 1 .. n |-> 0]
    /\ ticker = IdleTicker
    /\ exchange = IdleExchange
    /\ InitProcesses
    /\ InitNoIPC
    /\ InitOthers

NextDNS ==
    \/ ExchangeBegin
    \/ ExchangeScan
    \/ ExchangeSort
    \/ ExchangePick
    \/ ExchangeSend
    \/ \E ok \in BOOLEAN : ExchangeReply(ok)
    \/ ExchangeReturn
    \/ \E healthyOnly \in BOOLEAN : monitorLoop(healthyOnly)
    \/ probeUpstreams
    \/ \E u \in 1 .. ProbedUpstreams, latency \in {0} \cup Latencies : probeOne(u, latency)

SpecDNS == InitDNS /\ [][NextDNS]_vars

(* The Process Manager over several runs of dnstc, with failing spawns and *)
(* saves, children that exit and foreign processes taking free pids.       *)
InitManager ==
    /\ InitEngine(InitConfig)
    /\ InitNoResolver
    /\ InitProcesses
    /\ InitNoIPC
    /\ InitOthers

NextManager ==
    \/ \E name \in Names, pid \in Pids, spawnOk \in BOOLEAN, saveOk \in BOOLEAN :
          MgrStart(name, pid, spawnOk, saveOk)
    \/ \E name \in Names, saveOk \in BOOLEAN : MgrStopBegin(name, saveOk)
    \/ \E saveOk \in BOOLEAN : MgrStopWaited(saveOk)
    \/ MgrStopAll
    \/ \E name \in Names, saveOk \in BOOLEAN : MgrStopAllNext(name, saveOk)
    \/ \E m \in monitors, saveOk \in BOOLEAN : MgrMonitor(m, saveOk)
    \/ MgrExit
    \/ NewManager
    \/ \E pid \in Pids : ProcExit(pid)
    \/ \E pid \in Pids : ForeignSpawn(pid)

SpecManager == InitManager /\ [][NextManager]_vars

(* One daemon that serves, and clients that dial, write request lines of  *)
(* every kind and close; the daemon is shut down by request or by signal.  *)
Requests ==
    {PingLine,
     Line(TRUE, "shutdown", "absent", 1),
     Line(TRUE, "stop", "absent", 1),
     Line(TRUE, "start_tunnel", "absent", 1),
     Line(TRUE, "stop_tunnel", "emptytag", 1),
     Line(TRUE, "activate_tunnel", "tag", 1),
     Line(TRUE, "bogus", "absent", 1),
     Line(FALSE, "", "absent", 1),
     Line(TRUE, "status", "absent", MaxTokenSize),
     Line(TRUE, "status", "absent", MaxTokenSize + 1)}

Serving == [pc |-> "serving", ln |-> "open", accepting |-> TRUE, shutdownCh |-> 0]

InitIPC ==
    /\ InitEngine(InitConfig)
    /\ InitNoResolver
    /\ InitProcesses
    /\ sockFile = 1
    /\ daemon = [d \in Daemons |-> IF d = 1 THEN Serving ELSE NoDaemon]
    /\ ipcConns = [c \in ConnIds |-> FreeConn]
    /\ launch = IdleLaunch
    /\ InitOthers

(* The clients of the connections cs writing lines of reqs, and the       *)
(* server's side of these connections                                      *)
Traffic(cs, reqs) ==
    \/ \E c \in cs : ClientDial(c)
    \/ \E c \in cs, req \in reqs : ClientSend(c, req)
    \/ \E c \in cs : ClientClose(c)
    \/ \E c \in cs : Accept(c)
    \/ \E c \in cs : HandleScan(c)
    \/ \E c \in cs, engineOk \in BOOLEAN : HandleDispatch(c, engineOk)

(* daemon run from the select on, and Server.Stop *)
Shutdown ==
    \/ \E sig \in BOOLEAN : DaemonSelect(1, sig)
    \/ AcceptLoopExit(1)
    \/ SrvStop(1)

(* Every kind of request line on one connection *)
NextDispatch == Traffic({1}, Requests) \/ Shutdown

SpecDispatch == InitIPC /\ [][NextDispatch]_vars

(* Several connections at once, with lines of every size *)
SizedRequests ==
    {PingLine,
     Line(TRUE, "shutdown", "absent", 1),
     Line(FALSE, "", "absent", 1),
     Line(TRUE, "status", "absent", MaxTokenSize),
     Line(TRUE, "status", "absent", MaxTokenSize + 1)}

NextIPC == Traffic(ConnIds, SizedRequests) \/ Shutdown

SpecIPC == InitIPC /\ [][NextIPC]_vars

(* The daemon and one connection with fair scheduling: a goroutine that    *)
(* can run does run, and the select of daemon run returns once ShutdownCh  *)
(* is filled. Nothing is assumed of the clients or of signals.             *)
SpecDrain ==
    /\ InitIPC
    /\ [][NextDispatch]_vars
    /\ WF_vars(Accept(1))
    /\ WF_vars(HandleScan(1))
    /\ WF_vars(\E engineOk \in BOOLEAN : HandleDispatch(1, engineOk))
    /\ WF_vars(DaemonSelect(1, FALSE))
    /\ WF_vars(AcceptLoopExit(1))
    /\ WF_vars(SrvStop(1))

(* Supervisors launched side by side, command line clients that run       *)
(* DetectDaemon, and a client connection                                   *)
InitSocket ==
    /\ InitEngine(InitConfig)
    /\ InitNoResolver
    /\ InitProcesses
    /\ InitNoIPC
    /\ InitOthers

Supervisors ==
    \/ \E d \in Daemons : SrvStart(d)
    \/ \E d \in Daemons : SrvListen(d)
    \/ \E d \in Daemons : DaemonSelect(d, TRUE)
    \/ \E d \in Daemons : AcceptLoopExit(d)
    \/ \E d \in Daemons : SrvStop(d)
    \/ \E d \in Daemons : DaemonCrash(d)

NextSocket ==
    \/ \E d \in Daemons : DaemonRun(d)
    \/ Supervisors
    \/ ClientDetect
    \/ Traffic({1}, {PingLine})

SpecSocket == InitSocket /\ [][NextSocket]_vars

(* EnsureDaemon next to a supervisor the user may have started: the steps  *)
(* of EnsureDaemon are taken when they can be, the deadline of the polling *)
(* loop passes; nothing is assumed of the daemons.                         *)
NextLaunch ==
    \/ EnsureDaemon
    \/ \E c \in ConnIds : EnsureDial(c)
    \/ EnsurePing
    \/ \E spawnOk \in BOOLEAN : EnsureSpawn(MaxDaemons, spawnOk)
    \/ \E late \in BOOLEAN : EnsurePoll(late)
    \/ DaemonRun(1)
    \/ daemon[MaxDaemons].pc = "spawned" /\ DaemonRun(MaxDaemons)
    \/ Supervisors
    \/ \E c \in ConnIds : Accept(c)
    \/ \E c \in ConnIds : HandleScan(c)
    \/ \E c \in ConnIds, engineOk \in BOOLEAN : HandleDispatch(c, engineOk)

SpecLaunch ==
    /\ InitSocket
    /\ [][NextLaunch]_vars
    /\ WF_vars(EnsureDaemon)
    /\ WF_vars(\E c \in ConnIds : EnsureDial(c))
    /\ WF_vars(EnsurePing)
    /\ WF_vars(\E spawnOk \in BOOLEAN : EnsureSpawn(MaxDaemons, spawnOk))
    /\ WF_vars(\E late \in BOOLEAN : EnsurePoll(late))

(* The SSH adapter alone: clients of its SOCKS5 listener, the handlers and *)
(* Stop                                                                    *)
InitSocks ==
    /\ InitEngine(InitConfig)
    /\ InitNoResolver
    /\ InitProcesses
    /\ InitNoIPC
    /\ InitAdapter
    /\ InitNoFiles
    /\ statusCall = NoStatus
    /\ proxies = NotCounted

Handlers5 ==
    \/ \E c \in SocksIds : TunnelAccept(c)
    \/ \E c \in SocksIds : socks5Greeting(c)
    \/ \E c \in SocksIds : socks5Request(c)
    \/ \E c \in SocksIds : socks5Addr(c)
    \/ \E c \in SocksIds, dialOk \in BOOLEAN : handleConnDial(c, dialOk)
    \/ \E c \in SocksIds : handleConnRelayed(c)
    \/ TunnelAcceptExit
    \/ TunnelStopped

NextSocks ==
    \/ \E c \in SocksIds, in \in SocksInputs : SocksConnect(c, in)
    \/ \E c \in SocksIds : SocksClose(c)
    \/ \E c \in SocksIds : RemoteClose(c)
    \/ TunnelStop
    \/ Handlers5

SpecSocks == InitSocks /\ [][NextSocks]_vars

(* The same with the scheduling of the adapter: a goroutine that can go on *)
(* does go on. A client is under no obligation: it may stay idle forever.  *)
SpecSocksStop ==
    /\ InitSocks
    /\ [][NextSocks]_vars
    /\ WF_vars(Handlers5)

(* The config file alone, written whole at first: savers, one at a time,   *)
(* and loaders                                                             *)
InitFile ==
    /\ InitEngine(InitConfig)
    /\ InitNoResolver
    /\ InitProcesses
    /\ InitNoIPC
    /\ InitNoAdapter
    /\ \E c \in FileConfigs : cfgFile = Marshal(c)
    /\ save = [NoSave EXCEPT !.old = cfgFile]
    /\ loaded = NoLoad
    /\ statusCall = NoStatus
    /\ proxies = NotCounted

NextFile ==
    \/ \E c \in FileConfigs, openOk \in BOOLEAN : SaveOpen(c, openOk)
    \/ \E n \in 0 .. 4 : SaveWrite(n)
    \/ LoadFromPath

SpecFile == InitFile /\ [][NextFile]_vars

(* The handlers alone, over a config of one tunnel, and the engine's       *)
(* reload                                                                  *)
InitHandlers == InitWith([InitConfig EXCEPT !.tunnels = <<TunnelB>>])

NextHandlers ==
    \/ \E raw \in RawTags, loadOk, saveOk \in BOOLEAN :
          HandleTunnelAdd(raw, loadOk, saveOk)
    \/ \E raw \in RawTags, backend \in {"socks", "ssh"}, loadOk, saveOk \in BOOLEAN :
          HandleTunnelImport(raw, backend, loadOk, saveOk)
    \/ \E raw \in {"", "a", "b", "g", "g-1"}, loadOk, saveOk \in BOOLEAN :
          HandleTunnelRemove(raw, loadOk, saveOk)
    \/ \E raw \in {"", "a", "b", "g", "g-1"}, withEng, loadOk, saveOk \in BOOLEAN :
          HandleTunnelActivate(raw, withEng, loadOk, saveOk)
    \/ \E loadOk \in BOOLEAN : EngReloadConfig(loadOk)

SpecHandlers == InitHandlers /\ [][NextHandlers]_vars

(* Stop and StopTunnel against the Gateway's connections. A goroutine that *)
(* can go on does go on: the steps of Stop, the handlers of the Gateway    *)
(* once they can take the lock they ask for, and every relay comes to its  *)
(* end.                                                                    *)
NextStopGw ==
    \/ CallStart(NoFaults)
    \/ CallStartTunnel(NoFaults)
    \/ CallStopTunnel(NoFaults)
    \/ EngStopTunnelDone
    \/ CallActivateTunnel(NoFaults)
    \/ CallStop
    \/ Children
    \/ Relay

SpecStopGw ==
    /\ InitGateway
    /\ [][NextStopGw]_vars
    /\ WF_vars(CallStop)
    /\ WF_vars(EngStopTunnelDone)
    /\ WF_vars(\E c \in conns, dialOk \in BOOLEAN : GwResolve(c, dialOk))
    /\ WF_vars(\E c \in conns : GwClose(c))

(* Status against the calls that write: a call that takes Engine.mu for   *)
(* writing, and the bootstrap goroutine's, waits while Status reads.       *)
Writers ==
    /\ statusCall.pc = "idle"
    /\ \/ CallStart(NoFaults)
       \/ CallStartTunnel(NoFaults)
       \/ CallStopTunnel(NoFaults)
       \/ EngStopTunnelDone
       \/ CallActivateTunnel(NoFaults)
       \/ \E c \in Slots : BootInstall(c)

NextStatus ==
    \/ Writers
    \/ StatusBegin
    \/ StatusTunnel
    \/ StatusKeepalive
    \/ StatusReturn
    \/ Children
    \/ \E c \in Slots : BootWaitOk(c)
    \/ \E c \in Slots : BootWaitTimeout(c)
    \/ \E c \in Slots : BootSSHOk(c)
    \/ \E c \in Slots : BootSSHFail(c)
    \/ \E c \in Slots : SSHSessionDies(c)

SpecStatus == InitSSH /\ [][NextStatus]_vars

(* Start, StartTunnel and Stop with the running DNS Proxy instances       *)
(* counted                                                                 *)
InitInstances ==
    /\ InitEngine([InitConfig EXCEPT !.tunnels = <<TunnelB>>])
    /\ InitNoResolver
    /\ InitProcesses
    /\ InitNoIPC
    /\ InitNoAdapter
    /\ InitNoFiles
    /\ statusCall = NoStatus
    /\ proxies = 0

NextInstances ==
    \/ CallStart(AllFaults)
    \/ CallStartTunnel(AllFaults)
    \/ CallStopTunnel(NoFaults)
    \/ EngStopTunnelDone
    \/ CallStop
    \/ Children

SpecInstances == InitInstances /\ [][NextInstances]_vars

(* The monitor alone, until Close. Both tickers keep firing and the select *)
(* of monitorLoop serves each of them again and again; a goroutine that    *)
(* can run does run, and a probe ends at the latest by its timeout.        *)
NextProbe ==
    \/ \E healthyOnly \in BOOLEAN : monitorLoop(healthyOnly)
    \/ probeUpstreams
    \/ \E u \in 1 .. ProbedUpstreams, latency \in {0} \cup Latencies : probeOne(u, latency)
    \/ Close

SpecProbe ==
    /\ InitDNS
    /\ [][NextProbe]_vars
    /\ SF_vars(monitorLoop(TRUE))
    /\ SF_vars(monitorLoop(FALSE))
    /\ WF_vars(probeUpstreams)
    /\ \A u \in 1 .. ProbedUpstreams :
          WF_vars(\E latency \in {0} \cup Latencies : probeOne(u, latency))

----------------------------------------------------------------------------
(* Claims *)

(* C1: every connection the Gateway relays goes to the exposed port of the   *)
(* tunnel that was active when the connection was accepted, if that tunnel   *)
(* is running when the target is resolved.                                   *)
C1_RelayedToActive ==
    \A c \in conns : (c.st = "relay" /\ c.want # 0) => c.target = c.want

(* C2: from the return of stop_tunnel(t) until the next start_tunnel(t),     *)
(* restart_tunnel(t) or start(), no child of t is tracked and the adapter    *)
(* table has no entry for t.                                                 *)
C2_StoppedStaysStopped ==
    \A t \in TagInputs : stopped = t => (procs[t] = 0 /\ sshTunnels[t] = 0)

(* C3: the target resolver returns the exposed port on which the active      *)
(* tunnel was started and is serving, nothing when there is no such tunnel,  *)
(* and never the port the Gateway itself listens on.                         *)
C3_ResolvesServingPort ==
    /\ resolveActiveTarget(CurE) = ServingPort(CurE, cfg.active)
    /\ (gw.set /\ gw.listening /\ resolveActiveTarget(CurE) # 0)
          => resolveActiveTarget(CurE) # gw.port

(* C4: once the child of a tunnel has exited on its own and its reaper has  *)
(* run, the tunnel is purged: the adapter made for that child is no longer  *)
(* in the engine's table and its SOCKS listener is released.                *)
C4_ExitPurgesAdapter ==
    \A c \in Slots :
        (child[c].st = "exited" /\ ~child[c].mon /\ child[c].boot = "done") =>
            (sshTunnels[child[c].tag] # c /\ ~child[c].adL)

(* C5: a live tracked child of an ssh tunnel without a recorded adapter has  *)
(* its bootstrap in progress, which ends by recording the adapter or by      *)
(* stopping the child.                                                       *)
C5_BootstrapRuns ==
    \A c \in Slots :
        (/\ eng = Idle
         /\ child[c].ssh
         /\ Alive(child, c)
         /\ procs[child[c].tag] = c
         /\ sshTunnels[child[c].tag] = 0)
        => child[c].boot \in {"wait", "hs", "lock"}

(* C6: status reports running for a configured tunnel exactly when a child   *)
(* process of it is alive and, for backend ssh, an adapter is recorded for   *)
(* it and alive.                                                             *)
C6_StatusExact ==
    \A i \in 1 .. Len(cfg.tunnels) :
        LET tc == cfg.tunnels[i] IN
        StatusRunning(CurE, tc.tag) <=>
            /\ \E c \in Slots : child[c].tag = tc.tag /\ Alive(child, c)
            /\ tc.backend = "ssh" =>
                  (sshTunnels[tc.tag] # 0 /\ child[sshTunnels[tc.tag]].adA)

(* C7: whenever start_tunnel returns success the Gateway is listening.       *)
C7_GatewayListening ==
    (ret.op = "StartTunnel" /\ ret.ok) => (gw.set /\ gw.listening)

(* C8: when start finds the configured Gateway port in use, either start     *)
(* fails, or the Gateway listens on another port, status reports that port   *)
(* and the persisted listen.socks has been updated to it.                    *)
C8_PortReassigned ==
    (ret.op = "Start" /\ ret.note.inUse) =>
        \/ ~ret.ok
        \/ /\ gw.set /\ gw.listening
           /\ gw.port # ret.note.oldPort
           /\ StatusGatewayAddr(CurE) = gw.port
           /\ extractPort(disk.listen) = gw.port

(* C9: start fails exactly when the Gateway cannot be started, and then      *)
(* starts no tunnel; otherwise it attempts, in config order, every tunnel    *)
(* whose enabled flag is not false and no other, whatever the DNS Proxy and  *)
(* the single tunnels do.                                                    *)
EnabledTags(c) ==
    LET idx == {i \in 1 .. Len(c.tunnels) : c.tunnels[i].enabled # "false"}
        F[k \in 0 .. Len(c.tunnels)] ==
            IF k = 0 THEN <<>>
            ELSE IF k \in idx THEN Append(F[k - 1], c.tunnels[k].tag) ELSE F[k - 1]
    IN  F[Len(c.tunnels)]

C9_StartStep ==
    ret'.op = "Start" =>
        LET n == ret'.note IN
        /\ ret'.ok = ~n.gwErr
        /\ n.gwErr => (n.attempts = <<>> /\ procs' = procs /\ child' = child)
        /\ ~n.gwErr => [i \in 1 .. Len(n.attempts) |-> n.attempts[i].tag] = EnabledTags(cfg)

C9_StartPolicy == [][C9_StartStep]_vars

C9_Witness ==
    /\ ret.op = "Start"
    /\ ret.ok
    /\ ret.note.dnsErr
    /\ Len(ret.note.attempts) = 2
    /\ ~ret.note.attempts[1].ok
    /\ ret.note.attempts[2].ok
    /\ procs["b"] # 0

(* C10: stop stops the adapters, then the children, then the Gateway, then   *)
(* the DNS Proxy: a component is touched only after those before it are      *)
(* down, and when stop returns nothing is left.                              *)
AllDown(adapters, tracked) ==
    \A t \in TagInputs : adapters[t] = 0 /\ tracked[t] = 0

C10_StopStep ==
    /\ (eng.op = "Stop" /\ eng.pc = "procs") =>
           (AllDown(sshTunnels, sshTunnels) /\ gw' = gw /\ dnsProxy' = dnsProxy)
    /\ (eng.op = "Stop" /\ eng.pc \in {"gw", "gwwait"}) =>
           (AllDown(sshTunnels, procs) /\ dnsProxy' = dnsProxy)
    /\ (eng.op = "Stop" /\ eng.pc = "dns") => (AllDown(sshTunnels, procs) /\ ~gw.set)
    /\ ret'.op = "Stop" => (AllDown(sshTunnels', procs') /\ ~gw'.set /\ ~dnsProxy')

C10_StopOrder == [][C10_StopStep]_vars

C10_Witness ==
    /\ eng.op = "Stop" /\ eng.pc = "procs"
    /\ \E c \in Slots : /\ procs["a"] = c
                        /\ Alive(child, c)
                        /\ child[c].boot = "done"
    /\ gw.set /\ gw.listening
    /\ dnsProxy

(* C11: start_tunnel returns an error and spawns no child (process table    *)
(* and SSH adapter table unchanged) when the tag names no tunnel, when       *)
(* tunnel-<tag> is already running, when the required binary is missing,     *)
(* or, for a non-ssh backend, when the exposed port is not free.             *)
C11_Rejected(E, tag, ch) ==
    \/ ~HasTag(E.cfg, tag)
    \/ isRunningLocked(E, tag)
    \/ ch.fault = "nobin"
    \/ LET tc == GetTunnelByTag(E.cfg, tag)
       IN  tc.backend # "ssh" /\ ~IsAvailable(E, ExposedPort(E.cfg, tc))

C12_PairSupported(tag) ==
    LET tc == GetTunnelByTag(cfg, tag)
    IN  tc.backend \in SupportedBackends(tc.transport)

C12_InvalidPairRejected ==
    /\ (ret.op = "StartTunnel" /\ ret.ok) => C12_PairSupported(ret.tag)
    /\ \A c \in Slots : child[c].st # "none" => C12_PairSupported(child[c].tag)

(* C13: a tunnel configured with port 0 gets a port of its own, different   *)
(* from the port the Gateway is configured with and from the port the       *)
(* Gateway listens on.                                                      *)
C13_OwnPort ==
    \A c \in Slots :
        (/\ child[c].st # "none"
         /\ HasTag(cfg, child[c].tag)
         /\ GetTunnelByTag(cfg, child[c].tag).port = 0) =>
            /\ child[c].eport # extractPort(InitConfig.listen)
            /\ gw.set => child[c].eport # gw.port

(* C14: from every reachable state restart_tunnel(tag) has the same outcome *)
(* and leaves the same engine state (children, adapters, Gateway, DNS       *)
(* Proxy) as stop_tunnel(tag) followed by start_tunnel(tag), the            *)
(* environment answering both in the same way.                              *)
C14_StopThenStart(E, tag, ch, g) ==
    LET s == StopTunnel(E, tag, TRUE)
        E1 == IF s.gwStop THEN [s.E EXCEPT !.gw = NoGateway] ELSE s.E
    IN  IF s.ok THEN StartTunnel(E1, tag, TRUE, ch, g)
        ELSE [E |-> s.E, ok |-> FALSE, full |-> FALSE]

C14_RestartIsStopStart ==
    (eng = Idle /\ conns = {}) =>
        \A tag \in TagInputs, p \in Ephemeral :
            LET ch == [fault |-> "none", port |-> p, early |-> FALSE]
                g == [fault |-> "none", port |-> p]
                r == RestartTunnel(CurE, tag, ch)
                t == C14_StopThenStart(CurE, tag, ch, g)
            IN  (~r.full /\ ~t.full) =>
                    /\ r.ok = t.ok
                    /\ Collect(r.E) = Collect(t.E)

(* C15: activate_tunnel on an existing tag has set route.active to the tag  *)
(* in memory and in the persisted config when it returns success, and it    *)
(* starts or stops no child, adapter, Gateway or DNS Proxy.                 *)
C15_ActivateStep ==
    (ret'.op = "ActivateTunnel" /\ ret'.ok) =>
        /\ HasTag(cfg, ret'.tag)
        /\ cfg'.active = ret'.tag
        /\ disk'.active = ret'.tag
        /\ procs' = procs /\ child' = child /\ sshTunnels' = sshTunnels
        /\ gw' = gw /\ dnsProxy' = dnsProxy

C15_ActivateFrame == [][C15_ActivateStep]_vars

C15_Witness ==
    /\ ret.op = "ActivateTunnel" /\ ret.ok /\ ret.tag = "b"
    /\ cfg.active = "b" /\ disk.active = "b"
    /\ \E c \in Slots : Alive(child, c)
    /\ gw.set /\ gw.listening

(* C16: is_connected() is true exactly when at least one configured tunnel  *)
(* is running in the sense of status(), in every reachable state.           *)
C16_ConnectedIffRunning ==
    IsConnected(CurE) <=>
        \E i \in 1 .. Len(cfg.tunnels) : StatusRunning(CurE, cfg.tunnels[i].tag)

(* C17: Exchange tries the upstreams currently marked healthy, by ascending *)
(* average latency, the never measured ones after all measured ones and     *)
(* ties in registration order; only if none is healthy, all upstreams in    *)
(* registration order. An unhealthy upstream is never tried while one is    *)
(* healthy, also when every healthy upstream fails.                         *)
C17_Healthy == {u \in DOMAIN states : states[u].Healthy}

C17_Precedes(a, b) ==
    LET la == states[a].AvgLatency
        lb == states[b].AvgLatency
    IN  \/ la # 0 /\ lb = 0
        \/ la # 0 /\ lb # 0 /\ la < lb
        \/ la = lb /\ a < b

C17_ExchangeOrder ==
    exchange.pc \in {"send", "wait", "ret"} =>
        LET o == exchange.ordered IN
        /\ IF C17_Healthy # {}
           THEN /\ ~exchange.fallback
                /\ {o[k] : k \in DOMAIN o} = C17_Healthy
                /\ Len(o) = Cardinality(C17_Healthy)
                /\ \A p, q \in DOMAIN o : p < q => C17_Precedes(o[p], o[q])
           ELSE o = allStates
        /\ Len(exchange.log) <= Len(o)
        /\ \A k \in DOMAIN exchange.log :
              /\ exchange.log[k].up = o[k]
              /\ C17_Healthy # {} => states[exchange.log[k].up].Healthy
        /\ (exchange.pc = "ret" /\ exchange.res = "err") => Len(exchange.log) = Len(o)

C17_Witness ==
    /\ exchange.pc = "ret" /\ exchange.res = "err"
    /\ Len(states) = 3
    /\ ~states[2].Healthy
    /\ states[1].AvgLatency = 0
    /\ exchange.ordered = <<3, 1>>
    /\ Len(exchange.log) = 2

(* C18: within one Exchange call at most one upstream exchange is in flight, *)
(* each upstream is sent the request at most once, at most one exchange     *)
(* completes successfully, the first success is returned and no upstream is *)
(* contacted after it; if every tried upstream fails the last error is      *)
(* returned, and with no upstream the call fails.                           *)
C18_Contacted == {u \in DOMAIN exchange.sent : exchange.sent[u] > 0}

C18_Sequential ==
    LET e == exchange
        n == Len(e.log)
    IN  /\ Cardinality(e.inflight) <= 1
        /\ \A u \in DOMAIN e.sent : e.sent[u] <= 1
        /\ \A k \in DOMAIN e.log : e.log[k].ok => k = n
        /\ (n > 0 /\ e.log[n].ok) =>
               /\ e.pc = "ret" /\ e.res = "ok" /\ e.from = e.log[n].up
               /\ e.inflight = {}
               /\ C18_Contacted = {e.log[k].up : k \in DOMAIN e.log}
        /\ e.pc = "ret" =>
               \/ e.res = "ok" /\ n > 0 /\ e.log[n].ok
               \/ /\ e.res = "err" /\ n = Len(e.ordered) /\ n > 0
                  /\ \A k \in DOMAIN e.log : ~e.log[k].ok
                  /\ e.err = e.log[n].up
               \/ e.res = "none" /\ Len(states) = 0 /\ n = 0 /\ C18_Contacted = {}
        /\ (e.pc = "ret" /\ Len(states) = 0) => e.res = "none"

C18_Witness ==
    /\ exchange.pc = "ret" /\ exchange.res = "ok"
    /\ Len(exchange.log) = 2
    /\ ~exchange.log[1].ok
    /\ exchange.from = exchange.ordered[2]
    /\ \E u \in DOMAIN probes : probes[u] > 0

(* C19: whenever Exchange returns a successful response, it came from an    *)
(* upstream the call found marked healthy, or the call found no upstream    *)
(* marked healthy and took the fallback path; also when probes change the   *)
(* marks during the call.                                                   *)
C19_HealthyOrFallback ==
    (exchange.pc = "ret" /\ exchange.res = "ok") =>
        \/ ~exchange.fallback /\ exchange.read[exchange.from] = "healthy"
        \/ exchange.fallback /\ \A u \in DOMAIN exchange.read : exchange.read[u] = "unhealthy"

C19_Witness ==
    /\ exchange.pc = "ret" /\ exchange.res = "ok"
    /\ ~exchange.fallback
    /\ ~states[exchange.from].Healthy
    /\ \E u \in DOMAIN states : u # exchange.from /\ states[u].Healthy
                                  /\ exchange.read[u] = "unhealthy"

(* C20: an upstream starts healthy with failure counter 0 and unmeasured    *)
(* latency; a failed probe increments the counter and the upstream is       *)
(* unhealthy from the third consecutive failure on; a successful probe      *)
(* resets the counter and marks it healthy. So in every reachable state,    *)
(* also with probes in parallel, an upstream is healthy if and only if its  *)
(* failure counter is below 3.                                              *)
C20_Start == \A u \in DOMAIN states : states[u] = UpstreamState(TRUE, 0, 0)

C20_Step ==
    \A u \in DOMAIN states :
        /\ states'[u].Healthy <=> states'[u].Failures < failureThreshold
        /\ states'[u] # states[u] =>
              \/ /\ states'[u].Failures = states[u].Failures + 1
                 /\ states[u].Failures < MaxFailures
                 /\ states'[u].AvgLatency = states[u].AvgLatency
              \/ /\ states'[u].Failures = 0
                 /\ states'[u].AvgLatency # 0

C20_HealthStateMachine == C20_Start /\ [][C20_Step]_vars

C20_Witness ==
    \E u, v \in DOMAIN states :
        /\ ~states[u].Healthy /\ states[u].Failures > failureThreshold /\ probes[u] > 0
        /\ states[v].Healthy /\ states[v].Failures = failureThreshold - 1 /\ probes[v] > 0
        /\ states[v].AvgLatency # 0

(* C21: while the resolver is open, a tick of the healthy ticker probes     *)
(* every upstream it finds healthy and a tick of the unhealthy ticker every *)
(* upstream it finds unhealthy; therefore an unhealthy upstream whose       *)
(* probes stop failing is eventually marked healthy again.                  *)
C21_TickStep ==
    (ticker.pc \in {"healthy", "unhealthy"} /\ ticker' # ticker) =>
        LET i == ticker.i IN
        /\ (states[i].Healthy = (ticker.pc = "healthy")) <=> (probes'[i] = probes[i] + 1)
        /\ \A u \in DOMAIN probes : u # i => probes'[u] = probes[u]
        /\ ticker' = IF i = Len(states) THEN IdleTicker ELSE [pc |-> ticker.pc, i |-> i + 1]

C21_Unhealthy(u) == u \in DOMAIN states /\ ~states[u].Healthy

C21_HealthyOrClosed(u) ==
    \/ u \in DOMAIN states /\ states[u].Healthy
    \/ ticker.pc = "closed"

C21_Reprobed ==
    /\ [][C21_TickStep]_vars
    /\ \A u \in 1 .. ProbedUpstreams :
          <>[][~probeOne(u, 0)]_vars => (C21_Unhealthy(u) ~> C21_HealthyOrClosed(u))

C21_Witness ==
    \E u \in DOMAIN states :
        /\ ~states[u].Healthy
        /\ ticker.pc = "idle"
        /\ probes[u] > 0
        /\ \E v \in DOMAIN states : states[v].Healthy /\ probes[v] > 0

----------------------------------------------------------------------------
(* C22. Manager.Start fails when the name is already running, and a Start  *)
(* that returns an error (duplicate name, spawn failure, failure to save   *)
(* the table) leaves no new child behind and the tracked table as it was.  *)
C22_StartStep ==
    (mret'.op = "Start" /\ mgr.pc = "up") =>
        /\ MgrIsRunning(mret'.name) => ~mret'.ok
        /\ ~mret'.ok => processes' = processes /\ table' = table

C22_StartAtomic == [][C22_StartStep]_vars

(* C23. When is_running(name) holds, the pid recorded for the name is a    *)
(* live process that a Process Manager of dnstc started under that name,   *)
(* also for an entry loaded from the state file of an earlier run.         *)
C23_RunningIsOwn ==
    \A n \in Names :
        MgrIsRunning(n) =>
            /\ table[processes[n]].owner \in {"mgr", "old"}
            /\ table[processes[n]].name = n

(* C24. Stop of a tracked name has ended the process when it returns, by   *)
(* the termination signal or by the kill after the grace period, has       *)
(* removed the entry and saved the table, for a child of this run and for  *)
(* an entry adopted from an earlier run; Stop of an untracked name         *)
(* succeeds and changes nothing.                                           *)
C24_Stopped ==
    mret.op = "Stop" =>
        IF mret.pid = 0 THEN mret.ok
        ELSE /\ ~(table[mret.pid].owner \in {"mgr", "old"} /\ table[mret.pid].name = mret.name)
             /\ processes[mret.name] = 0
             /\ mret.ok => stateFile = processes

(* C25. After the start over a state file with an entry whose pid is dead, *)
(* NewManager followed by the StopAll of the daemon, the entry is not      *)
(* tracked and the state file no longer holds it.                          *)
C25_OrphansDropped ==
    /\ mret.op = "NewManager" => \A n \in Names : processes[n] # 0 => MgrIsRunning(n)
    /\ (mret.op = "StopAll" /\ mret.ok /\ mgr.boot) => stateFile = processes
----------------------------------------------------------------------------
(* C26. On one IPC connection the server handles the request lines one at  *)
(* a time in the order of arrival and writes exactly one response per      *)
(* line, in that order, for every line that fits the maximum message size; *)
(* what a connection is answered depends on its own lines only, and its    *)
(* handler can take its next step whatever the other connections do.       *)
C26_Serial(k) ==
    /\ k.cur # 0 => k.cur = k.next
    /\ Len(k.out) = k.next - (IF k.cur # 0 THEN 1 ELSE 0)
    /\ \A i \in 1 .. Len(k.out) :
          /\ k.for[i] = i
          /\ Fits(k.sent[i])
          /\ \E engineOk \in BOOLEAN : <<k.out[i]>> = handleLine(k.sent[i], engineOk)
    /\ (k.st = "closed" /\ k.cli = "open" /\ k.next > 0 /\ daemon[k.d].pc # "exited") =>
          k.next < Len(k.sent) /\ ~Fits(k.sent[k.next + 1])

C26_Independent(c) ==
    LET k == ipcConns[c] IN
    /\ (k.st = "open" /\ k.cur = 0 /\ k.next < Len(k.sent)) => ENABLED HandleScan(c)
    /\ (k.st = "open" /\ k.cur # 0) => ENABLED HandleDispatch(c, TRUE)

C27_Rejected(req) ==
    \/ ~req.json
    \/ req.method \notin {"ping", "shutdown"} \cup EngineMethods \cup TunnelMethods \cup QueryMethods
    \/ req.method \in TunnelMethods /\ req.params \in {"absent", "emptytag"}

C27_ResultOrError ==
    \A c \in ConnIds :
        LET k == ipcConns[c] IN
        \A i \in 1 .. Len(k.out) :
            /\ (k.out[i].Result # "") # (k.out[i].Error # "")
            /\ C27_Rejected(k.sent[k.for[i]]) =>
                  /\ k.out[i].Error # "" /\ ~k.out[i].engine
                  /\ k.st = "open" \/ k.cli = "closed" \/ k.next < Len(k.sent)

(* C28. Once Server.Stop has closed the listener it returns when the       *)
(* requests being handled are done, whatever the clients do, and after a   *)
(* shutdown request the daemon exits.                                      *)
C28_StopReturns ==
    /\ (daemon[1].pc = "draining") ~> (daemon[1].pc = "exited")
    /\ (daemon[1].shutdownCh = 1) ~> (daemon[1].pc = "exited")

(* C29. At most one daemon owns the IPC socket: the socket file of a       *)
(* daemon that serves is not unlinked or bound again by another process,   *)
(* so no two daemons serve at once.                                        *)
C29_Step ==
    /\ (sockFile # 0 /\ daemon[sockFile].pc = "serving" /\ daemon'[sockFile].pc = "serving")
          => sockFile' = sockFile
    /\ Cardinality({d \in Daemons : daemon'[d].pc = "serving"}) <= 1

C29_OneOwner == [][C29_Step]_vars

(* C30. EnsureDaemon always returns: with a client of a daemon that        *)
(* answered its ping, or with an error once the deadline has passed.       *)
C30_Returns == (launch.pc = "detect") ~> (launch.pc \in {"client", "error"})

(* C31. On every SOCKS5 connection the adapter answers a version 5         *)
(* greeting with method 0x00 and a version 5 request with exactly one      *)
(* reply: 0x07 for a command other than CONNECT, 0x08 for an unknown       *)
(* address type, 0x05 when the dial fails, 0x00 only after the dial        *)
(* succeeded. Bytes are relayed only after 0x00; after any other reply the *)
(* connection is closed and nothing is dialed any more.                    *)
C31_Replies(k) == SubSeq(k.sent, 2, Len(k.sent))

C31_Valid(in) ==
    /\ in.cmd = socks5CmdConnect
    /\ in.atyp \in {socks5AddrIPv4, socks5AddrDomain, socks5AddrIPv6}

C31_OneReply ==
    \A c \in SocksIds :
        LET k == socks[c]
            r == C31_Replies(k)
        IN  /\ k.sent # <<>> => k.sent[1] = 0 /\ k.in.gver = socks5Version /\ k.in.parts >= 1
            /\ (k.pc \in {"header", "addr", "dial", "relay"}) => Len(k.sent) >= 1
            /\ Len(r) <= 1
            /\ r # <<>> => /\ k.in.rver = socks5Version /\ k.in.parts >= 2
                           /\ r[1] \in {0, 5, 7, 8}
                           /\ r[1] = 7 <=> k.in.cmd # socks5CmdConnect
                           /\ r[1] = 8 <=> k.in.cmd = socks5CmdConnect /\ ~C31_Valid(k.in)
                           /\ r[1] \in {7, 8} => k.dials = 0
                           /\ r[1] = 5 => k.dials = 1 /\ k.remote = "none"
                           /\ r[1] = 0 => k.dials = 1 /\ k.remote # "none"
                           /\ r[1] # 0 => k.pc = "end" /\ k.st = "closed" /\ ~k.relay
            /\ k.relay => r = <<0>>
            /\ (k.pc = "end" /\ k.sent # <<>> /\ k.in.rver = socks5Version
                  /\ (k.in.parts = 3 \/ (k.in.parts = 2 /\ ~C31_Valid(k.in)))) => Len(r) = 1
            /\ (k.pc = "relay") => r = <<0>>

C31_Witness ==
    /\ socks[1].pc = "end" /\ C31_Replies(socks[1]) = <<0>> /\ socks[1].relay
    /\ socks[2].pc = "end" /\ C31_Replies(socks[2]) \in {<<7>>, <<8>>, <<5>>}

(* C32. A reader of the config file never sees a truncated or partial      *)
(* file: also after a write that failed part-way, LoadFromPath returns     *)
(* the whole config of before the write or the whole new one, and no       *)
(* error. Stated for the loads that do not overlap with a write.           *)
C32_WholeOrPrevious ==
    (loaded.done /\ ~loaded.during) =>
        /\ loaded.err = ""
        /\ Marshal(loaded.cfg) \in loaded.whole

(* C33. After any sequence of tunnel add, import, remove and activate, no  *)
(* two tunnels share a tag and route.active is empty or the tag of a       *)
(* tunnel, in the saved config and in the engine's.                        *)
C33_Consistent(c) ==
    /\ UniqueTags(c)
    /\ c.active = "" \/ HasTag(c, c.active)

C33_TagsAndRoute == C33_Consistent(disk) /\ C33_Consistent(cfg)

C33_Witness ==
    /\ ret = Ret("TunnelImport", "", TRUE)
    /\ ~HasTag(disk, "b")
    /\ disk.active = "g"
    /\ HasTag(disk, "g-1")
    /\ cfg.active = "b"

(* C34. Engine.Stop and Engine.StopTunnel always return: they do not wait  *)
(* forever for a handler of the Gateway, whenever its connection was       *)
(* accepted.                                                               *)
C34_StopReturns == (eng.op \in {"Stop", "StopTunnel"}) ~> (eng = Idle)

(* C35. The bootstrap goroutine of one start of a tag acts only on the     *)
(* child of that start: once a restart, or a stop and a start, has put a   *)
(* newer child under the tag, a step of the earlier bootstrap neither      *)
(* stops the newer child nor records its adapter for the newer run.        *)
C35_Step ==
    \A c \in Slots :
        LET tag == child[c].tag IN
        (/\ child[c].boot \in {"wait", "hs", "lock"}
         /\ child'[c].boot # child[c].boot
         /\ procs[tag] \notin {0, c})
        => /\ procs'[tag] = procs[tag]
           /\ child'[procs[tag]].st = child[procs[tag]].st
           /\ sshTunnels'[tag] # c

C35_OwnChildOnly == [][C35_Step]_vars

(* C36. A child started under a name stays tracked while it is alive and   *)
(* not stopped: when the reaper of an earlier child of the name finishes,  *)
(* the entry of the later child stays.                                     *)
C36_Step ==
    \A m \in monitors :
        LET p == processes[m.name] IN
        (/\ m.done
         /\ monitors' = monitors \ {m}
         /\ p \notin {0, m.pid}
         /\ table[p].owner = "mgr" /\ table[p].name = m.name)
        => processes'[m.name] = p

C36_OwnEntryOnly == [][C36_Step]_vars

(* C37. No blocking operation runs while Engine.mu is held: Status with   *)
(* its read lock is never inside the keepalive round trip of an SSH        *)
(* adapter.                                                                *)
C37_NoRoundTripUnderLock == statusCall.pc # "keepalive"

(* C38. When ActivateTunnel returns an error, for an unknown tag or a      *)
(* config that was not saved, route.active in memory and the target the    *)
(* Gateway resolves are what they were before the call.                    *)
C38_Step ==
    (ret'.op = "ActivateTunnel" /\ ~ret'.ok)
    => /\ cfg'.active = cfg.active
       /\ resolveActiveTarget(CurE)' = resolveActiveTarget(CurE)

C38_ErrorChangesNothing == [][C38_Step]_vars

(* C39. Tunnel.Stop always returns, also while SOCKS clients hold idle     *)
(* connections open: once the listener and the SSH client are closed every *)
(* handler finishes without any action of its client.                      *)
C39_StopReturns == (adapter.st = "stopping") ~> (adapter.st = "stopped")

(* C40. At most one DNS Proxy and at most one Gateway listener started by  *)
(* the engine are live at any time, none of them unreferenced, and after   *)
(* Stop has returned none is left.                                         *)
C40_OneInstance ==
    /\ proxies <= 1
    /\ proxies = 1 => dnsProxy
    /\ gw.listening => gw.set
    /\ (ret.op = "Stop" /\ eng = Idle) => proxies = 0 /\ ~gw.set
====
